---- MODULE Spec2Model ----
(***************************************************************************)
(* Task-tracking backend: role-scoped REST task operations                 *)
(* (controllers/userController.js, middleware/auth.js, routes/*.js, the    *)
(* task schema in models/User.js) and the Socket.IO relay                  *)
(* (socket/socketHandlers.js).                                             *)
(*                                                                         *)
(* Each request is one action: the route's middleware chain followed by    *)
(* the controller, in the order routes/taskRoutes.js wires them.  The      *)
(* response and what the request did are recorded in `last`.               *)
(***************************************************************************)
EXTENDS Integers, Sequences, FiniteSets, TLC

VARIABLES
    users,          \* the User collection: id -> document (NoUser when absent)
    tasks,          \* the Task collection: id -> document (NoTask when absent)
    nextId,         \* ids handed out so far; Mongo never reuses an _id
    usersGuarded,   \* whether the application mounts protect before the user routes
    emitThrows,     \* whether req.io.emit(...) throws (the publisher is failing)
    reqs,           \* updateTask requests between their awaits: id -> [pc, ...]
    conns,          \* Socket.IO connections: id -> [state, user, role, rooms]
    last            \* the last request: what was asked, the response, who received events

vars == <<users, tasks, nextId, usersGuarded, emitThrows, reqs, conns, last>>

(***************************************************************************)
(* Bounds                                                                  *)
(***************************************************************************)
MaxTasks == 2
MaxComments == 1
MaxConns == 2
MaxSubtasks == 200
MaxReqs == 2

TaskIds == 1..MaxTasks
ConnIds == 1..MaxConns
ReqIds == 1..MaxReqs

(***************************************************************************)
(* Users                                                                   *)
(***************************************************************************)
Roles == {"admin", "vendor", "customer"}
UserIds == {"A1", "V1", "V2", "C1"}
\* a well-formed id that names no user document
GhostId == "G0"

NoUser == [role |-> "none", isActive |-> FALSE, email |-> "none"]

SeedUsers ==
    [u \in UserIds |->
        [role |-> CASE u = "A1" -> "admin"
                    [] u \in {"V1", "V2"} -> "vendor"
                    [] OTHER -> "customer",
         isActive |-> TRUE,
         email |-> CASE u = "A1" -> "a1@x" [] u = "V1" -> "v1@x"
                     [] u = "V2" -> "v2@x" [] OTHER -> "c1@x"]]

\* String.prototype.toLowerCase on the addresses requests carry
toLowerCase(e) == IF e = "P@x" THEN "p@x" ELSE e

\* User.findOne({ email, _id: { $ne: id } }): some other user holds the email
EmailTaken(us, email, id) ==
    \E u \in DOMAIN us : u # id /\ us[u] # NoUser /\ us[u].email = email

\* User.findById: the document, or null
FindUser(us, id) == IF id \in DOMAIN us THEN us[id] ELSE NoUser

(***************************************************************************)
(* Credentials.  A JWT is modelled by its verified payload: register signs *)
(* {id}, login signs {userId}.                                             *)
(***************************************************************************)
Undefined == "undefined"
NoToken == [kind |-> "none", id |-> Undefined, userId |-> Undefined]
BadToken == [kind |-> "bad", id |-> Undefined, userId |-> Undefined]

generateToken(id) == [kind |-> "jwt", id |-> id, userId |-> Undefined]
loginToken(id) == [kind |-> "jwt", id |-> Undefined, userId |-> id]

Tokens == {NoToken, BadToken}
            \cup {generateToken(u) : u \in UserIds}
            \cup {loginToken(u) : u \in UserIds}

\* the requester resolved by a gate: req.user / socket.user
NoActor == [id |-> "none", role |-> "none"]
Actor(us, id) == [id |-> id, role |-> us[id].role]

\* protect without the isActive check
protect_IgnoreActive(us, tok) ==
    IF tok.kind # "jwt" THEN [code |-> 401, user |-> NoActor]
    ELSE IF FindUser(us, tok.userId) = NoUser THEN [code |-> 401, user |-> NoActor]
    ELSE [code |-> 0, user |-> Actor(us, tok.userId)]

\* protect: 401 without a token, with a token that does not verify, with no
\* user under decoded.userId, or with an inactive user; else req.user is set
protect(us, tok) ==
    IF tok.kind = "none" THEN [code |-> 401, user |-> NoActor]
    ELSE IF tok.kind = "bad" THEN [code |-> 401, user |-> NoActor]
    ELSE LET user == FindUser(us, tok.userId) IN
         IF user = NoUser THEN [code |-> 401, user |-> NoActor]
         ELSE IF ~user.isActive THEN [code |-> 401, user |-> NoActor]
         ELSE [code |-> 0, user |-> Actor(us, tok.userId)]

\* authorize that lets every role through
authorize_AnyRole(roles, user) == 0

\* authorize(...roles): 403 unless req.user.role is one of the roles
authorize(roles, user) == IF user.role \notin roles THEN 403 ELSE 0

(***************************************************************************)
(* Tasks                                                                   *)
(***************************************************************************)
Null == 0
Statuses == {"todo", "inprogress", "done"}
Priorities == {"low", "medium", "high"}

NoTask ==
    [title |-> <<>>, status |-> "none", priority |-> "none",
     assigneeId |-> "none", createdBy |-> "none", dueDate |-> Null,
     tags |-> {}, subtasks |-> <<>>, comments |-> <<>>,
     isArchived |-> FALSE, completedAt |-> Null]

\* a new document before the body is applied: the schema's defaults
NewTask == [NoTask EXCEPT !.status = "todo", !.priority = "medium"]

TaskFields == DOMAIN NoTask

\* Task.findById
FindTask(ts, id) == IF id \in DOMAIN ts THEN ts[id] ELSE NoTask

Exists(ts, id) == FindTask(ts, id) # NoTask

\* a plain update object is applied as $set of the paths it names
ApplyUpdate(task, upd) ==
    [f \in TaskFields |-> IF f \in DOMAIN upd THEN upd[f] ELSE task[f]]

(***************************************************************************)
(* The outcome of a request                                                *)
(***************************************************************************)
NoBody == [none |-> TRUE]

Idle ==
    [op |-> "init", code |-> 0, actor |-> NoActor, task |-> 0, body |-> NoBody,
     ids |-> {}, count |-> 0, result |-> {}, data |-> NoBody,
     event |-> "none", to |-> {}, token |-> NoToken, conn |-> 0]

Outcome(tok, op, code, actor) ==
    [Idle EXCEPT !.op = op, !.code = code, !.actor = actor, !.token = tok]

(***************************************************************************)
(* Request bodies and query strings are objects: a field is present or not *)
(***************************************************************************)
Has(obj, f) == f \in DOMAIN obj

\* obj[k] = v on a JS object: sets the key, replacing what was there
Put(obj, k, v) == [x \in (DOMAIN obj) \cup {k} |-> IF x = k THEN v ELSE obj[x]]

(***************************************************************************)
(* Listing: the Mongo filter getTasks builds, and what it matches          *)
(***************************************************************************)
Lower(c) == IF c = "B" THEN "b" ELSE c

\* { $regex: term, $options: "i" } on a string path: the term occurs in it,
\* letter case ignored (terms without regex operators)
RegexI(text, term) ==
    \E i \in 0..(Len(text) - Len(term)) :
        \A j \in 1..Len(term) : Lower(text[i + j]) = Lower(term[j])

\* String.prototype.split(","): the pieces between the commas
RECURSIVE SplitFrom(_, _, _)
SplitFrom(s, i, cur) ==
    IF i > Len(s) THEN <<cur>>
    ELSE IF s[i] = "," THEN <<cur>> \o SplitFrom(s, i + 1, <<>>)
    ELSE SplitFrom(s, i + 1, Append(cur, s[i]))
split(s) == SplitFrom(s, 1, <<>>)

Elems(seq) == {seq[i] : i \in DOMAIN seq}

\* one condition of a filter: equality on a path, $in on an array path, a
\* regex, $ne or $lt
Cond(path, op, value) == [path |-> path, op |-> op, value |-> value]

Holds(task, c) ==
    CASE c.op = "eq" -> task[c.path] = c.value
      [] c.op = "in" -> task[c.path] \cap c.value # {}
      [] c.op = "regex" -> RegexI(task[c.path], c.value)
      [] c.op = "ne" -> task[c.path] # c.value
      [] c.op = "lt" -> task[c.path] < c.value
      [] c.op = "or" -> \E d \in c.value :
                            CASE d.op = "eq" -> task[d.path] = d.value
                              [] d.op = "regex" -> RegexI(task[d.path], d.value)

\* a filter object: key -> condition; a document matches when every key's
\* condition holds
Matches(task, query) == \A k \in DOMAIN query : Holds(task, query[k])

\* the two conditions of a vendor's ownership $or
OwnOr(uid) == {Cond("assigneeId", "eq", uid), Cond("createdBy", "eq", uid)}

\* getTasks, "Build query based on user role": archived tasks are left out
BaseQuery == [isArchived |-> Cond("isArchived", "eq", FALSE)]

\* getTasks, "Role-based filtering": the role scope, set on the filter object
RoleScope(query, user) ==
    IF user.role = "customer"
        THEN Put(query, "assigneeId", Cond("assigneeId", "eq", user.id))
    ELSE IF user.role = "vendor"
        THEN Put(query, "$or", Cond("$or", "or", OwnOr(user.id)))
    ELSE query

\* getTasks, "Apply filters": each filter present in the query string is
\* assigned to its key of the filter object
ApplyFilters(query, f) ==
    LET q1 == IF Has(f, "status")
                THEN Put(query, "status", Cond("status", "eq", f.status)) ELSE query
        q2 == IF Has(f, "priority")
                THEN Put(q1, "priority", Cond("priority", "eq", f.priority)) ELSE q1
        q3 == IF Has(f, "assigneeId")
                THEN Put(q2, "assigneeId", Cond("assigneeId", "eq", f.assigneeId)) ELSE q2
        q4 == IF Has(f, "tags")
                THEN Put(q3, "tags", Cond("tags", "in", Elems(split(f.tags)))) ELSE q3
        q5 == IF Has(f, "search")
                THEN Put(q4, "$or", Cond("$or", "or", {Cond("title", "regex", f.search)}))
                ELSE q4
    IN q5

ListQuery(user, f) == ApplyFilters(RoleScope(BaseQuery, user), f)

\* Task.find(query): the ids of the documents that match
Find(ts, query) == {id \in DOMAIN ts : ts[id] # NoTask /\ Matches(ts[id], query)}

\* the pairs <<completed, total>>, total up to 205, for which the double
\* (completed / total) * 100 lies just under k + 1/2 while the exact value
\* is k + 1/2: Math.round gives k there
RoundsDown ==
    {<<23, 40>>, <<46, 80>>, <<69, 120>>, <<92, 160>>, <<115, 200>>,
     <<29, 200>>, <<57, 200>>, <<113, 200>>}

\* Math.round((completed / total) * 100) for 0 <= completed <= total, total > 0:
\* the nearest integer, a half rounded up, computed on doubles
MathRound(completed, total) ==
    LET exact == (200 * completed + total) \div (2 * total) IN
    IF <<completed, total>> \in RoundsDown THEN exact - 1 ELSE exact

\* taskSchema.virtual("subtaskProgress"), part of every task sent as JSON
subtaskProgress(task) ==
    LET total == Len(task.subtasks)
        completed == Cardinality({i \in DOMAIN task.subtasks : task.subtasks[i].completed})
    IN IF total = 0 THEN [completed |-> 0, total |-> 0, percentage |-> 0]
       ELSE [completed |-> completed, total |-> total,
             percentage |-> MathRound(completed, total)]

\* getTask, "Check access permissions": the response code for a stored task.
\* assigneeId and createdBy are populated: a reference to a user that is gone
\* populates to null and reading its _id throws
getTaskCode(us, user, task) ==
    IF user.role = "customer"
        THEN IF FindUser(us, task.assigneeId) = NoUser THEN 500
             ELSE IF task.assigneeId # user.id THEN 403 ELSE 200
    ELSE IF user.role = "vendor"
        THEN IF FindUser(us, task.assigneeId) = NoUser THEN 500
             ELSE IF task.assigneeId = user.id THEN 200
             ELSE IF FindUser(us, task.createdBy) = NoUser THEN 500
             ELSE IF task.createdBy = user.id THEN 200 ELSE 403
    ELSE 200

(***************************************************************************)
(* GET /api/tasks and GET /api/tasks/:id                                   *)
(***************************************************************************)
getTasks(tok, f) ==
    LET p == protect(users, tok) IN
    /\ last' = IF p.code # 0 THEN Outcome(tok, "getTasks", p.code, NoActor)
               ELSE [Outcome(tok, "getTasks", 200, p.user) EXCEPT
                        !.body = f, !.result = Find(tasks, ListQuery(p.user, f))]
    /\ UNCHANGED <<users, tasks, nextId, usersGuarded, emitThrows, reqs, conns>>

getTask(tok, id) ==
    LET p == protect(users, tok)
        task == FindTask(tasks, id) IN
    /\ last' = IF p.code # 0 THEN Outcome(tok, "getTask", p.code, NoActor)
               ELSE IF task = NoTask
                   THEN [Outcome(tok, "getTask", 404, p.user) EXCEPT !.task = id]
               ELSE LET code == getTaskCode(users, p.user, task) IN
                    [Outcome(tok, "getTask", code, p.user) EXCEPT
                        !.task = id,
                        !.data = IF code = 200 THEN subtaskProgress(task) ELSE NoBody]
    /\ UNCHANGED <<users, tasks, nextId, usersGuarded, emitThrows, reqs, conns>>

(***************************************************************************)
(* GET /api/tasks/stats, GET /api/tasks/overdue and the task statistics of *)
(* GET /api/users/:id                                                      *)
(***************************************************************************)
\* a statistics filter that forgets isArchived
matchQuery_All(user) ==
    LET base == [x \in {} |-> TRUE] IN
    IF user.role = "customer"
        THEN Put(base, "assigneeId", Cond("assigneeId", "eq", user.id))
    ELSE IF user.role = "vendor"
        THEN Put(base, "$or", Cond("$or", "or", OwnOr(user.id)))
    ELSE base

\* getTaskStats, "Build query based on user role"
matchQuery(user) ==
    LET base == [isArchived |-> Cond("isArchived", "eq", FALSE)] IN
    IF user.role = "customer"
        THEN Put(base, "assigneeId", Cond("assigneeId", "eq", user.id))
    ELSE IF user.role = "vendor"
        THEN Put(base, "$or", Cond("$or", "or", OwnOr(user.id)))
    ELSE base

\* $match then $group: total counts the matched documents
getTaskStats(tok) ==
    LET p == protect(users, tok) IN
    /\ last' = IF p.code # 0 THEN Outcome(tok, "getTaskStats", p.code, NoActor)
               ELSE LET matched == Find(tasks, matchQuery(p.user)) IN
                    [Outcome(tok, "getTaskStats", 200, p.user) EXCEPT
                        !.result = matched, !.count = Cardinality(matched)]
    /\ UNCHANGED <<users, tasks, nextId, usersGuarded, emitThrows, reqs, conns>>

\* getOverdueTasks, "Build query based on user role": not done, due before
\* now, not archived, and the role scope
OverdueQuery(user, now) ==
    LET base == [status |-> Cond("status", "ne", "done"),
                 dueDate |-> Cond("dueDate", "lt", now),
                 isArchived |-> Cond("isArchived", "eq", FALSE)] IN
    IF user.role = "customer"
        THEN Put(base, "assigneeId", Cond("assigneeId", "eq", user.id))
    ELSE IF user.role = "vendor"
        THEN Put(base, "$or", Cond("$or", "or", OwnOr(user.id)))
    ELSE base

getOverdueTasks(tok, now) ==
    LET p == protect(users, tok) IN
    /\ last' = IF p.code # 0 THEN Outcome(tok, "getOverdueTasks", p.code, NoActor)
               ELSE LET found == Find(tasks, OverdueQuery(p.user, now)) IN
                    [Outcome(tok, "getOverdueTasks", 200, p.user) EXCEPT
                        !.result = found, !.count = Cardinality(found)]
    /\ UNCHANGED <<users, tasks, nextId, usersGuarded, emitThrows, reqs, conns>>

\* GET /api/users/:id: the user with "user's task statistics", the
\* unarchived tasks assigned to the user.  The route has no role gate.
getUser(tok, id) ==
    LET p == IF usersGuarded THEN protect(users, tok)
                             ELSE [code |-> 0, user |-> NoActor]
        matched == Find(tasks, [assigneeId |-> Cond("assigneeId", "eq", id),
                                isArchived |-> Cond("isArchived", "eq", FALSE)])
    IN
    /\ last' = IF p.code # 0 THEN Outcome(tok, "getUser", p.code, NoActor)
               ELSE IF FindUser(users, id) = NoUser
                   THEN Outcome(tok, "getUser", 404, p.user)
               ELSE [Outcome(tok, "getUser", 200, p.user) EXCEPT
                        !.result = matched, !.count = Cardinality(matched)]
    /\ UNCHANGED <<users, tasks, nextId, usersGuarded, emitThrows, reqs, conns>>

\* GET /api/users: the page of users the query matches (here: no filter).
\* The route has no role gate.
getUsers(tok) ==
    LET p == IF usersGuarded THEN protect(users, tok)
                             ELSE [code |-> 0, user |-> NoActor]
        found == {u \in DOMAIN users : users[u] # NoUser}
    IN
    /\ last' = IF p.code # 0 THEN Outcome(tok, "getUsers", p.code, NoActor)
               ELSE [Outcome(tok, "getUsers", 200, p.user) EXCEPT
                        !.count = Cardinality(found)]
    /\ UNCHANGED <<users, tasks, nextId, usersGuarded, emitThrows, reqs, conns>>

\* GET /api/users/stats: authorize("admin"), getUserStats; overview.total
getUserStats(tok) ==
    LET p == IF usersGuarded THEN protect(users, tok)
                             ELSE [code |-> 0, user |-> NoActor]
        total == Cardinality({u \in DOMAIN users : users[u] # NoUser})
    IN
    /\ last' = IF p.code # 0 THEN Outcome(tok, "getUserStats", p.code, NoActor)
               \* authorize reads req.user.role of an undefined req.user
               ELSE IF p.user = NoActor THEN Outcome(tok, "getUserStats", 500, NoActor)
               ELSE IF authorize({"admin"}, p.user) # 0
                   THEN Outcome(tok, "getUserStats", 403, p.user)
               ELSE [Outcome(tok, "getUserStats", 200, p.user) EXCEPT !.count = total]
    /\ UNCHANGED <<users, tasks, nextId, usersGuarded, emitThrows, reqs, conns>>

(***************************************************************************)
(* Middleware and hooks of the write side                                  *)
(***************************************************************************)
\* checkTaskAccess that forgets the vendor's createdBy test
checkTaskAccess_AssigneeOnly(ts, user, taskId) ==
    IF user.role = "admin" THEN 0
    ELSE LET task == FindTask(ts, taskId) IN
         IF task = NoTask THEN 404
         ELSE IF task.assigneeId = user.id THEN 0
         ELSE 403

\* checkTaskAccess: admins pass without a lookup; others need the task to
\* exist (404) and to be theirs (403)
checkTaskAccess(ts, user, taskId) ==
    IF user.role = "admin" THEN 0
    ELSE LET task == FindTask(ts, taskId) IN
         IF task = NoTask THEN 404
         ELSE IF user.role = "vendor"
                 /\ (task.createdBy = user.id \/ task.assigneeId = user.id) THEN 0
         ELSE IF user.role = "customer" /\ task.assigneeId = user.id THEN 0
         ELSE 403

\* a hook that stamps completedAt on every modified save of a done task
preSave_Restamp(doc, statusModified, now) ==
    IF statusModified /\ doc.status = "done" THEN [doc EXCEPT !.completedAt = now]
    ELSE IF statusModified /\ doc.completedAt # Null THEN [doc EXCEPT !.completedAt = Null]
    ELSE doc

\* taskSchema.pre("save"): completedAt follows a modified status
preSave(doc, statusModified, now) ==
    LET d1 == IF statusModified /\ doc.status = "done" /\ doc.completedAt = Null
                THEN [doc EXCEPT !.completedAt = now] ELSE doc
    IN IF statusModified /\ d1.status # "done" /\ d1.completedAt # Null
          THEN [d1 EXCEPT !.completedAt = Null] ELSE d1

\* the clock: new Date()
Times == {1}

\* doc.status = status; doc.save(): the hook runs on the document with the
\* new status.  isModified("status") is true when the value differs from
\* the stored one, and may be true as well when it does not (markModified).
save(id, status, statusModified, now) ==
    /\ Exists(tasks, id)
    /\ (status # tasks[id].status) => statusModified
    /\ tasks' = [tasks EXCEPT ![id] =
                    preSave([tasks[id] EXCEPT !.status = status], statusModified, now)]
    /\ last' = [Idle EXCEPT !.op = "save", !.task = id,
                             !.body = [status |-> status, statusModified |-> statusModified]]
    /\ UNCHANGED <<users, nextId, usersGuarded, emitThrows, reqs, conns>>

\* req.io.emit(...): every connected socket receives the event
Open(cs) == {c \in DOMAIN cs : cs[c].state = "open"}

\* "Emit socket event for real-time updates": req.io.emit(event, ...) runs
\* after the write and before res.status(...).json(...), outside any try.
\* When it throws the handler ends there: the write stays, no success
\* response is sent and the error handler answers 500.
Emit(out, event) ==
    IF emitThrows THEN [out EXCEPT !.code = 500]
    ELSE [out EXCEPT !.event = event, !.to = Open(conns)]

\* an assignee check that accepts every id
AssigneeMissing_Never(us, body) == FALSE

\* "Verify assignee exists": the body names an assignee that is no user
AssigneeMissing(us, body) ==
    Has(body, "assigneeId") /\ FindUser(us, body.assigneeId) = NoUser

(***************************************************************************)
(* POST /api/tasks: protect, authorize("admin", "vendor"), createTask      *)
(***************************************************************************)
createTask(tok, body) ==
    LET p == protect(users, tok)
        a == authorize({"admin", "vendor"}, p.user)
        \* { ...req.body, createdBy: req.user._id }
        fresh == ApplyUpdate(NewTask, Put(body, "createdBy", p.user.id))
    IN
    IF p.code # 0 THEN
        /\ last' = Outcome(tok, "createTask", p.code, NoActor)
        /\ UNCHANGED <<users, tasks, nextId, usersGuarded, emitThrows, reqs, conns>>
    ELSE IF a # 0 THEN
        /\ last' = [Outcome(tok, "createTask", a, p.user) EXCEPT !.body = body]
        /\ UNCHANGED <<users, tasks, nextId, usersGuarded, emitThrows, reqs, conns>>
    ELSE IF FindUser(users, body.assigneeId) = NoUser THEN
        /\ last' = [Outcome(tok, "createTask", 400, p.user) EXCEPT !.body = body]
        /\ UNCHANGED <<users, tasks, nextId, usersGuarded, emitThrows, reqs, conns>>
    ELSE
        /\ nextId <= MaxTasks
        /\ \E now \in Times :
              tasks' = [tasks EXCEPT ![nextId] = preSave(fresh, Has(body, "status"), now)]
        /\ nextId' = nextId + 1
        /\ last' = Emit([Outcome(tok, "createTask", 201, p.user) EXCEPT
                        !.task = nextId, !.body = body], "taskCreated")
        /\ UNCHANGED <<users, usersGuarded, emitThrows, reqs, conns>>

(***************************************************************************)
(* PUT /api/tasks/:id: protect, checkTaskAccess, updateTask                *)
(***************************************************************************)
updateTask(tok, id, body) ==
    LET p == protect(users, tok)
        g == checkTaskAccess(tasks, p.user, id)
    IN
    IF p.code # 0 THEN
        /\ last' = [Outcome(tok, "updateTask", p.code, NoActor) EXCEPT !.task = id]
        /\ UNCHANGED <<users, tasks, nextId, usersGuarded, emitThrows, reqs, conns>>
    ELSE IF g # 0 THEN
        /\ last' = [Outcome(tok, "updateTask", g, p.user) EXCEPT !.task = id, !.body = body]
        /\ UNCHANGED <<users, tasks, nextId, usersGuarded, emitThrows, reqs, conns>>
    ELSE IF FindTask(tasks, id) = NoTask THEN
        /\ last' = [Outcome(tok, "updateTask", 404, p.user) EXCEPT !.task = id, !.body = body]
        /\ UNCHANGED <<users, tasks, nextId, usersGuarded, emitThrows, reqs, conns>>
    ELSE IF AssigneeMissing(users, body) THEN
        /\ last' = [Outcome(tok, "updateTask", 400, p.user) EXCEPT !.task = id, !.body = body]
        /\ UNCHANGED <<users, tasks, nextId, usersGuarded, emitThrows, reqs, conns>>
    ELSE
        \* Task.findByIdAndUpdate(id, req.body): a direct $set, no save hook
        /\ tasks' = [tasks EXCEPT ![id] = ApplyUpdate(tasks[id], body)]
        /\ last' = Emit([Outcome(tok, "updateTask", 200, p.user) EXCEPT
                        !.task = id, !.body = body], "taskUpdated")
        /\ UNCHANGED <<users, nextId, usersGuarded, emitThrows, reqs, conns>>

(***************************************************************************)
(* PUT /api/tasks/:id once more, at the grain of its awaits: the reads     *)
(* (protect, checkTaskAccess, Task.findById, User.findById) form one step  *)
(* and Task.findByIdAndUpdate with the response another, so that requests  *)
(* interleave.  Each read only gates; the one write is a single-document   *)
(* update, which MongoDB applies atomically.                               *)
(***************************************************************************)
NoReq == [pc |-> "idle", op |-> "none", token |-> NoToken, actor |-> NoActor,
          id |-> 0, user |-> "none", sub |-> 0, body |-> NoBody, task |-> NoTask,
          code |-> 0]

updateTaskFind(r, tok, id, body) ==
    LET p == protect(users, tok)
        g == checkTaskAccess(tasks, p.user, id)
        code == IF p.code # 0 THEN p.code
                ELSE IF g # 0 THEN g
                ELSE IF FindTask(tasks, id) = NoTask THEN 404
                ELSE IF AssigneeMissing(users, body) THEN 400
                ELSE 0
    IN
    /\ reqs[r].pc = "idle"
    /\ reqs' = [reqs EXCEPT ![r] =
                  [pc |-> IF code = 0 THEN "write" ELSE "done", op |-> "updateTask",
                   token |-> tok, actor |-> p.user, id |-> id, user |-> "none",
                   sub |-> 0, body |-> body,
                   task |-> FindTask(tasks, id), code |-> code]]
    /\ last' = [Outcome(tok, "updateTaskFind", code, p.user) EXCEPT
                    !.task = id, !.body = body, !.count = r]
    /\ UNCHANGED <<users, tasks, nextId, usersGuarded, emitThrows, conns>>

\* a write that saves the document read earlier with the patch applied
updateTaskWrite_SaveSnapshot(r) ==
    LET q == reqs[r] IN
    /\ q.pc = "write"
    /\ q.op = "updateTask"
    /\ tasks' = [tasks EXCEPT ![q.id] = ApplyUpdate(q.task, q.body)]
    /\ reqs' = [reqs EXCEPT ![r].pc = "done", ![r].code = 200]
    /\ last' = Emit([Outcome(q.token, "updateTask", 200, q.actor) EXCEPT
                        !.task = q.id, !.body = q.body, !.count = r], "taskUpdated")
    /\ UNCHANGED <<users, nextId, usersGuarded, emitThrows, conns>>

\* Task.findByIdAndUpdate(req.params.id, req.body): $set of the fields the
\* body names on the document as it is now (nothing when it is gone), then
\* the event and the response
updateTaskWrite(r) ==
    LET q == reqs[r] IN
    /\ q.pc = "write"
    /\ q.op = "updateTask"
    /\ tasks' = IF Exists(tasks, q.id)
                  THEN [tasks EXCEPT ![q.id] = ApplyUpdate(tasks[q.id], q.body)]
                  ELSE tasks
    /\ reqs' = [reqs EXCEPT ![r].pc = "done", ![r].code = 200]
    \* the event and the response carry the updated document, or null
    /\ last' = Emit([Outcome(q.token, "updateTask", 200, q.actor) EXCEPT
                        !.task = q.id, !.body = q.body, !.count = r,
                        !.ids = IF Exists(tasks, q.id) THEN {q.id} ELSE {}],
                    "taskUpdated")
    /\ UNCHANGED <<users, nextId, usersGuarded, emitThrows, conns>>

(***************************************************************************)
(* DELETE /api/tasks/:id: protect, authorize("admin"), deleteTask          *)
(***************************************************************************)
deleteTask(tok, id) ==
    LET p == protect(users, tok)
        a == authorize({"admin"}, p.user)
    IN
    IF p.code # 0 THEN
        /\ last' = [Outcome(tok, "deleteTask", p.code, NoActor) EXCEPT !.task = id]
        /\ UNCHANGED <<users, tasks, nextId, usersGuarded, emitThrows, reqs, conns>>
    ELSE IF a # 0 THEN
        /\ last' = [Outcome(tok, "deleteTask", a, p.user) EXCEPT !.task = id]
        /\ UNCHANGED <<users, tasks, nextId, usersGuarded, emitThrows, reqs, conns>>
    ELSE IF FindTask(tasks, id) = NoTask THEN
        /\ last' = [Outcome(tok, "deleteTask", 404, p.user) EXCEPT !.task = id]
        /\ UNCHANGED <<users, tasks, nextId, usersGuarded, emitThrows, reqs, conns>>
    ELSE
        /\ tasks' = [tasks EXCEPT ![id] = NoTask]
        /\ last' = Emit([Outcome(tok, "deleteTask", 200, p.user) EXCEPT
                        !.task = id], "taskDeleted")
        /\ UNCHANGED <<users, nextId, usersGuarded, emitThrows, reqs, conns>>

(***************************************************************************)
(* PUT /api/tasks/bulk/update: protect, authorize("admin", "vendor"),      *)
(* bulkUpdateTasks                                                         *)
(***************************************************************************)
\* the bulk filter without the vendor's ownership condition
BulkQuery_Unscoped(user, taskIds) == [_id |-> Cond("_id", "in", taskIds)]

\* "Build query based on user role": the ids asked for, narrowed for a vendor
BulkQuery(user, taskIds) ==
    LET base == [_id |-> Cond("_id", "in", taskIds)] IN
    IF user.role = "vendor"
        THEN Put(base, "$or", Cond("$or", "or", OwnOr(user.id)))
        ELSE base

\* the documents a filter with an _id condition selects
FindIn(ts, query) ==
    {id \in DOMAIN ts :
        /\ ts[id] # NoTask
        /\ id \in query["_id"].value
        /\ \A k \in (DOMAIN query) \ {"_id"} : Holds(ts[id], query[k])}

\* Task.updateMany(query, updates): $set on every match. The schema has
\* timestamps, so each match gets a new updatedAt and counts as modified.
updateMany(ts, query, updates) ==
    [id \in DOMAIN ts |->
        IF id \in FindIn(ts, query) THEN ApplyUpdate(ts[id], updates) ELSE ts[id]]

bulkUpdateTasks(tok, taskIds, updates) ==
    LET p == protect(users, tok)
        a == authorize({"admin", "vendor"}, p.user)
        query == BulkQuery(p.user, taskIds)
    IN
    IF p.code # 0 THEN
        /\ last' = Outcome(tok, "bulkUpdateTasks", p.code, NoActor)
        /\ UNCHANGED <<users, tasks, nextId, usersGuarded, emitThrows, reqs, conns>>
    ELSE IF a # 0 THEN
        /\ last' = [Outcome(tok, "bulkUpdateTasks", a, p.user) EXCEPT
                        !.ids = taskIds, !.body = updates]
        /\ UNCHANGED <<users, tasks, nextId, usersGuarded, emitThrows, reqs, conns>>
    ELSE IF taskIds = {} THEN
        \* bulkUpdateValidation: taskIds is an array of at least one id
        /\ last' = [Outcome(tok, "bulkUpdateTasks", 400, p.user) EXCEPT
                        !.ids = taskIds, !.body = updates]
        /\ UNCHANGED <<users, tasks, nextId, usersGuarded, emitThrows, reqs, conns>>
    ELSE IF AssigneeMissing(users, updates) THEN
        /\ last' = [Outcome(tok, "bulkUpdateTasks", 400, p.user) EXCEPT
                        !.ids = taskIds, !.body = updates]
        /\ UNCHANGED <<users, tasks, nextId, usersGuarded, emitThrows, reqs, conns>>
    ELSE
        /\ tasks' = updateMany(tasks, query, updates)
        /\ last' = Emit([Outcome(tok, "bulkUpdateTasks", 200, p.user) EXCEPT
                        !.ids = taskIds, !.body = updates,
                        !.count = Cardinality(FindIn(tasks, query))], "tasksBulkUpdated")
        /\ UNCHANGED <<users, nextId, usersGuarded, emitThrows, reqs, conns>>

(***************************************************************************)
(* DELETE /api/tasks/bulk/delete: protect, authorize("admin"),             *)
(* bulkDeleteTasks                                                         *)
(***************************************************************************)
bulkDeleteTasks(tok, taskIds) ==
    LET p == protect(users, tok)
        a == authorize({"admin"}, p.user)
        hit == FindIn(tasks, [_id |-> Cond("_id", "in", taskIds)])
    IN
    IF p.code # 0 THEN
        /\ last' = Outcome(tok, "bulkDeleteTasks", p.code, NoActor)
        /\ UNCHANGED <<users, tasks, nextId, usersGuarded, emitThrows, reqs, conns>>
    ELSE IF a # 0 THEN
        /\ last' = [Outcome(tok, "bulkDeleteTasks", a, p.user) EXCEPT !.ids = taskIds]
        /\ UNCHANGED <<users, tasks, nextId, usersGuarded, emitThrows, reqs, conns>>
    ELSE IF taskIds = {} THEN
        /\ last' = [Outcome(tok, "bulkDeleteTasks", 400, p.user) EXCEPT !.ids = taskIds]
        /\ UNCHANGED <<users, tasks, nextId, usersGuarded, emitThrows, reqs, conns>>
    ELSE
        /\ tasks' = [id \in DOMAIN tasks |-> IF id \in hit THEN NoTask ELSE tasks[id]]
        /\ last' = Emit([Outcome(tok, "bulkDeleteTasks", 200, p.user) EXCEPT
                        !.ids = taskIds, !.count = Cardinality(hit)], "tasksBulkDeleted")
        /\ UNCHANGED <<users, nextId, usersGuarded, emitThrows, reqs, conns>>

(***************************************************************************)
(* POST /api/tasks/:id/comments: protect, checkTaskAccess, addComment      *)
(***************************************************************************)
addComment(tok, id, text) ==
    LET p == protect(users, tok)
        g == checkTaskAccess(tasks, p.user, id)
        task == FindTask(tasks, id)
        comment(now) == [text |-> text, authorId |-> p.user.id,
                         authorRole |-> p.user.role, createdAt |-> now]
    IN
    IF p.code # 0 THEN
        /\ last' = [Outcome(tok, "addComment", p.code, NoActor) EXCEPT !.task = id]
        /\ UNCHANGED <<users, tasks, nextId, usersGuarded, emitThrows, reqs, conns>>
    ELSE IF g # 0 THEN
        /\ last' = [Outcome(tok, "addComment", g, p.user) EXCEPT !.task = id]
        /\ UNCHANGED <<users, tasks, nextId, usersGuarded, emitThrows, reqs, conns>>
    ELSE IF task = NoTask THEN
        /\ last' = [Outcome(tok, "addComment", 404, p.user) EXCEPT !.task = id]
        /\ UNCHANGED <<users, tasks, nextId, usersGuarded, emitThrows, reqs, conns>>
    ELSE
        /\ Len(task.comments) < MaxComments
        \* task.comments.push(comment); task.save(): the hook runs, status unmodified
        /\ \E now \in Times :
              tasks' = [tasks EXCEPT ![id] =
                          preSave([task EXCEPT !.comments = Append(@, comment(now))], FALSE, now)]
        /\ last' = Emit([Outcome(tok, "addComment", 201, p.user) EXCEPT
                        !.task = id], "commentAdded")
        /\ UNCHANGED <<users, nextId, usersGuarded, emitThrows, reqs, conns>>

(***************************************************************************)
(* PUT /api/tasks/:id/subtasks/:subtaskId: protect, checkTaskAccess,       *)
(* updateSubtask                                                           *)
(***************************************************************************)
\* task.subtasks.id(subtaskId): the position of the subtask, 0 when there is none
SubtaskAt(task, subtaskId) ==
    IF \E i \in DOMAIN task.subtasks : task.subtasks[i].id = subtaskId
        THEN CHOOSE i \in DOMAIN task.subtasks : task.subtasks[i].id = subtaskId
        ELSE 0

\* Object.assign(subtask, req.body)
Assign(subtask, body) ==
    [f \in DOMAIN subtask |-> IF f \in DOMAIN body THEN body[f] ELSE subtask[f]]

updateSubtask(tok, id, subtaskId, body) ==
    LET p == protect(users, tok)
        g == checkTaskAccess(tasks, p.user, id)
        task == FindTask(tasks, id)
        i == SubtaskAt(task, subtaskId)
    IN
    IF p.code # 0 THEN
        /\ last' = [Outcome(tok, "updateSubtask", p.code, NoActor) EXCEPT !.task = id]
        /\ UNCHANGED <<users, tasks, nextId, usersGuarded, emitThrows, reqs, conns>>
    ELSE IF g # 0 THEN
        /\ last' = [Outcome(tok, "updateSubtask", g, p.user) EXCEPT
                        !.task = id, !.ids = {subtaskId}]
        /\ UNCHANGED <<users, tasks, nextId, usersGuarded, emitThrows, reqs, conns>>
    ELSE IF task = NoTask \/ i = 0 THEN
        /\ last' = [Outcome(tok, "updateSubtask", 404, p.user) EXCEPT
                        !.task = id, !.ids = {subtaskId}]
        /\ UNCHANGED <<users, tasks, nextId, usersGuarded, emitThrows, reqs, conns>>
    ELSE
        /\ \E now \in Times :
              tasks' = [tasks EXCEPT ![id] =
                          preSave([task EXCEPT !.subtasks[i] = Assign(@, body)], FALSE, now)]
        /\ last' = Emit([Outcome(tok, "updateSubtask", 200, p.user) EXCEPT
                        !.task = id, !.ids = {subtaskId}, !.body = body], "subtaskUpdated")
        /\ UNCHANGED <<users, nextId, usersGuarded, emitThrows, reqs, conns>>

(***************************************************************************)
(* addComment and updateSubtask at the grain of their awaits: Task.findById*)
(* loads the document, the handler changes the loaded copy, and task.save()*)
(* sends the paths the copy changed: a push is sent as $push onto the      *)
(* stored array, a changed subtask field as $set of subtasks.<i>.<field>   *)
(* on the document at the version (__v) that was loaded.                   *)
(***************************************************************************)
addCommentFind(r, tok, id, text) ==
    LET p == protect(users, tok)
        g == checkTaskAccess(tasks, p.user, id)
        code == IF p.code # 0 THEN p.code
                ELSE IF g # 0 THEN g
                ELSE IF FindTask(tasks, id) = NoTask THEN 404
                ELSE 0
    IN
    /\ reqs[r].pc = "idle"
    /\ reqs' = [reqs EXCEPT ![r] =
                  [NoReq EXCEPT !.pc = IF code = 0 THEN "write" ELSE "done",
                                !.op = "addComment", !.token = tok, !.actor = p.user,
                                !.id = id, !.body = [text |-> text],
                                !.task = FindTask(tasks, id), !.code = code]]
    /\ last' = [Outcome(tok, "addCommentFind", code, p.user) EXCEPT
                    !.task = id, !.count = r]
    /\ UNCHANGED <<users, tasks, nextId, usersGuarded, emitThrows, conns>>

\* a save that writes the loaded document back whole
addCommentSave_WholeDocument(r) ==
    LET q == reqs[r] IN
    /\ q.pc = "write"
    /\ q.op = "addComment"
    /\ \E now \in Times :
          tasks' = [tasks EXCEPT ![q.id] =
                      [q.task EXCEPT !.comments =
                          Append(@, [text |-> q.body.text, authorId |-> q.actor.id,
                                     authorRole |-> q.actor.role, createdAt |-> now])]]
    /\ reqs' = [reqs EXCEPT ![r].pc = "done", ![r].code = 201]
    /\ last' = Emit([Outcome(q.token, "addComment", 201, q.actor) EXCEPT
                        !.task = q.id, !.count = r], "commentAdded")
    /\ UNCHANGED <<users, nextId, usersGuarded, emitThrows, conns>>

\* task.comments.push(comment); await task.save(): $push of the comment onto
\* the stored comments; on a document deleted meanwhile save throws
addCommentSave(r) ==
    LET q == reqs[r] IN
    /\ q.pc = "write"
    /\ q.op = "addComment"
    /\ IF ~Exists(tasks, q.id) THEN
          /\ reqs' = [reqs EXCEPT ![r].pc = "done", ![r].code = 500]
          /\ last' = [Outcome(q.token, "addComment", 500, q.actor) EXCEPT
                          !.task = q.id, !.count = r]
          /\ UNCHANGED tasks
       ELSE
          /\ \E now \in Times :
                tasks' = [tasks EXCEPT ![q.id].comments =
                            Append(@, [text |-> q.body.text, authorId |-> q.actor.id,
                                       authorRole |-> q.actor.role, createdAt |-> now])]
          /\ reqs' = [reqs EXCEPT ![r].pc = "done", ![r].code = 201]
          /\ last' = Emit([Outcome(q.token, "addComment", 201, q.actor) EXCEPT
                              !.task = q.id, !.count = r], "commentAdded")
    /\ UNCHANGED <<users, nextId, usersGuarded, emitThrows, conns>>

updateSubtaskFind(r, tok, id, subtaskId, body) ==
    LET p == protect(users, tok)
        g == checkTaskAccess(tasks, p.user, id)
        task == FindTask(tasks, id)
        code == IF p.code # 0 THEN p.code
                ELSE IF g # 0 THEN g
                ELSE IF task = NoTask \/ SubtaskAt(task, subtaskId) = 0 THEN 404
                ELSE 0
    IN
    /\ reqs[r].pc = "idle"
    /\ reqs' = [reqs EXCEPT ![r] =
                  [NoReq EXCEPT !.pc = IF code = 0 THEN "write" ELSE "done",
                                !.op = "updateSubtask", !.token = tok,
                                !.actor = p.user, !.id = id, !.sub = subtaskId,
                                !.body = body, !.task = task, !.code = code]]
    /\ last' = [Outcome(tok, "updateSubtaskFind", code, p.user) EXCEPT
                    !.task = id, !.ids = {subtaskId}, !.body = body, !.count = r]
    /\ UNCHANGED <<users, tasks, nextId, usersGuarded, emitThrows, conns>>

\* the paths Object.assign(subtask, req.body) changed on the loaded copy
Changed(subtask, body) == {f \in DOMAIN body : body[f] # subtask[f]}

\* Object.assign(subtask, req.body); await task.save(): $set of the changed
\* fields of subtasks.<i>, where i is the subtask's position in the loaded
\* copy, on the document at the loaded version.  Comments pushed since the
\* load have moved the version: the save then finds no document and throws
\* (VersionError); both that and a version left alone by pushes are modelled.
updateSubtaskSave(r) ==
    LET q == reqs[r]
        i == SubtaskAt(q.task, q.sub)
        delta == Changed(q.task.subtasks[i], q.body)
        moved == Len(tasks[q.id].comments) # Len(q.task.comments)
    IN
    /\ q.pc = "write"
    /\ q.op = "updateSubtask"
    /\ \E thrown \in {~Exists(tasks, q.id)}
                        \cup (IF Exists(tasks, q.id) /\ delta # {} /\ moved
                                THEN {TRUE} ELSE {}) :
          IF thrown THEN
              /\ reqs' = [reqs EXCEPT ![r].pc = "done", ![r].code = 500]
              /\ last' = [Outcome(q.token, "updateSubtask", 500, q.actor) EXCEPT
                              !.task = q.id, !.ids = {q.sub}, !.body = q.body,
                              !.count = r]
              /\ UNCHANGED tasks
          ELSE
              /\ tasks' = [tasks EXCEPT ![q.id].subtasks[i] =
                              [f \in DOMAIN @ |-> IF f \in delta THEN q.body[f] ELSE @[f]]]
              /\ reqs' = [reqs EXCEPT ![r].pc = "done", ![r].code = 200]
              /\ last' = Emit([Outcome(q.token, "updateSubtask", 200, q.actor) EXCEPT
                                  !.task = q.id, !.ids = {q.sub}, !.body = q.body,
                                  !.count = r], "subtaskUpdated")
    /\ UNCHANGED <<users, nextId, usersGuarded, emitThrows, conns>>

(***************************************************************************)
(* PUT /api/users/:id: authorize("admin"), updateUser.  routes/userRoutes  *)
(* does not install protect itself (the line is commented out): req.user   *)
(* is set only if the application mounts protect in front of the router.   *)
(***************************************************************************)
updateUser(tok, id, body) ==
    LET p == IF usersGuarded THEN protect(users, tok)
                             ELSE [code |-> 0, user |-> NoActor]
        user == FindUser(users, id)
    IN
    IF p.code # 0 THEN
        /\ last' = Outcome(tok, "updateUser", p.code, NoActor)
        /\ UNCHANGED <<users, tasks, nextId, usersGuarded, emitThrows, reqs, conns>>
    ELSE IF p.user = NoActor THEN
        \* authorize reads req.user.role of an undefined req.user: it throws
        /\ last' = Outcome(tok, "updateUser", 500, NoActor)
        /\ UNCHANGED <<users, tasks, nextId, usersGuarded, emitThrows, reqs, conns>>
    ELSE IF authorize({"admin"}, p.user) # 0 THEN
        /\ last' = Outcome(tok, "updateUser", 403, p.user)
        /\ UNCHANGED <<users, tasks, nextId, usersGuarded, emitThrows, reqs, conns>>
    ELSE IF user = NoUser THEN
        /\ last' = Outcome(tok, "updateUser", 404, p.user)
        /\ UNCHANGED <<users, tasks, nextId, usersGuarded, emitThrows, reqs, conns>>
    ELSE IF /\ Has(body, "email")
            /\ body.email # user.email
            /\ EmailTaken(users, toLowerCase(body.email), id) THEN
        /\ last' = Outcome(tok, "updateUser", 400, p.user)
        /\ UNCHANGED <<users, tasks, nextId, usersGuarded, emitThrows, reqs, conns>>
    ELSE
        \* User.findByIdAndUpdate(id, fieldsToUpdate): email and role if
        \* truthy, isActive if defined
        /\ users' = [users EXCEPT ![id] =
                        [role |-> IF Has(body, "role") THEN body.role ELSE @.role,
                         isActive |-> IF Has(body, "isActive") THEN body.isActive
                                                                ELSE @.isActive,
                         email |-> IF Has(body, "email") THEN toLowerCase(body.email)
                                                          ELSE @.email]]
        /\ last' = [Outcome(tok, "updateUser", 200, p.user) EXCEPT !.body = body]
        /\ UNCHANGED <<tasks, nextId, usersGuarded, emitThrows, reqs, conns>>

(***************************************************************************)
(* DELETE /api/users/:id: authorize("admin"), deleteUser                   *)
(***************************************************************************)
\* "Check if user has assigned tasks": the tasks counted against a deletion
AssignedQuery(id) ==
    [assigneeId |-> Cond("assigneeId", "eq", id),
     isArchived |-> Cond("isArchived", "eq", FALSE)]

deleteUser(tok, id) ==
    LET p == IF usersGuarded THEN protect(users, tok)
                             ELSE [code |-> 0, user |-> NoActor]
        user == FindUser(users, id)
        assignedTasks == Cardinality(Find(tasks, AssignedQuery(id)))
    IN
    IF p.code # 0 THEN
        /\ last' = Outcome(tok, "deleteUser", p.code, NoActor)
        /\ UNCHANGED <<users, tasks, nextId, usersGuarded, emitThrows, reqs, conns>>
    ELSE IF p.user = NoActor THEN
        /\ last' = Outcome(tok, "deleteUser", 500, NoActor)
        /\ UNCHANGED <<users, tasks, nextId, usersGuarded, emitThrows, reqs, conns>>
    ELSE IF authorize({"admin"}, p.user) # 0 THEN
        /\ last' = Outcome(tok, "deleteUser", 403, p.user)
        /\ UNCHANGED <<users, tasks, nextId, usersGuarded, emitThrows, reqs, conns>>
    ELSE IF user = NoUser THEN
        /\ last' = Outcome(tok, "deleteUser", 404, p.user)
        /\ UNCHANGED <<users, tasks, nextId, usersGuarded, emitThrows, reqs, conns>>
    ELSE IF assignedTasks > 0 THEN
        /\ last' = [Outcome(tok, "deleteUser", 400, p.user) EXCEPT !.count = assignedTasks]
        /\ UNCHANGED <<users, tasks, nextId, usersGuarded, emitThrows, reqs, conns>>
    ELSE
        \* User.findByIdAndDelete
        /\ users' = [users EXCEPT ![id] = NoUser]
        /\ last' = Outcome(tok, "deleteUser", 200, p.user)
        /\ UNCHANGED <<tasks, nextId, usersGuarded, emitThrows, reqs, conns>>

(***************************************************************************)
(* The requests that claim an email, at the grain of their awaits: each    *)
(* looks the email up and, finding no holder, writes it in a later step.   *)
(* userSchema declares email without unique and without an index, so the   *)
(* write itself refuses nothing.                                           *)
(***************************************************************************)
Request(op, pc, tok, actor, user, body, code) ==
    [NoReq EXCEPT !.op = op, !.pc = pc, !.token = tok, !.actor = actor,
                  !.user = user, !.body = body, !.code = code]

\* POST /api/auth/register (public) up to User.findByEmail
registerFind(r, body) ==
    LET code == IF EmailTaken(users, body.email, "none") THEN 400 ELSE 0 IN
    /\ reqs[r].pc = "idle"
    /\ reqs' = [reqs EXCEPT ![r] =
                  Request("register", IF code = 0 THEN "write" ELSE "done",
                          NoToken, NoActor, "none", body, code)]
    /\ last' = [Outcome(NoToken, "registerFind", code, NoActor) EXCEPT
                    !.body = body, !.count = r]
    /\ UNCHANGED <<users, tasks, nextId, usersGuarded, emitThrows, conns>>

\* User.create({name, email, password, role: role || "customer"}) under a
\* fresh _id, then 201 with generateToken(user._id)
registerCreate(r) ==
    LET q == reqs[r] IN
    /\ q.pc = "write"
    /\ q.op = "register"
    /\ \E id \in UserIds :
          /\ users[id] = NoUser
          /\ users' = [users EXCEPT ![id] =
                          [role |-> IF Has(q.body, "role") THEN q.body.role
                                                           ELSE "customer",
                           isActive |-> TRUE,
                           email |-> toLowerCase(q.body.email)]]
          /\ reqs' = [reqs EXCEPT ![r].pc = "done", ![r].code = 201, ![r].user = id]
          /\ last' = [Outcome(generateToken(id), "register", 201, NoActor) EXCEPT
                          !.body = q.body, !.count = r]
    /\ UNCHANGED <<tasks, nextId, usersGuarded, emitThrows, conns>>

\* PUT /api/auth/profile: protect, then the lookup of another holder
updateProfileFind(r, tok, body) ==
    LET p == protect(users, tok)
        code == IF p.code # 0 THEN p.code
                ELSE IF EmailTaken(users, toLowerCase(body.email), p.user.id) THEN 400
                ELSE 0
    IN
    /\ reqs[r].pc = "idle"
    /\ reqs' = [reqs EXCEPT ![r] =
                  Request("updateProfile", IF code = 0 THEN "write" ELSE "done",
                          tok, p.user, p.user.id, body, code)]
    /\ last' = [Outcome(tok, "updateProfileFind", code, p.user) EXCEPT
                    !.body = body, !.count = r]
    /\ UNCHANGED <<users, tasks, nextId, usersGuarded, emitThrows, conns>>

\* PUT /api/users/:id with an email: the gates, User.findById and the lookup
\* of another holder
updateUserFind(r, tok, id, body) ==
    LET p == IF usersGuarded THEN protect(users, tok)
                             ELSE [code |-> 0, user |-> NoActor]
        user == FindUser(users, id)
        code == IF p.code # 0 THEN p.code
                ELSE IF p.user = NoActor THEN 500
                ELSE IF authorize({"admin"}, p.user) # 0 THEN 403
                ELSE IF user = NoUser THEN 404
                ELSE IF /\ body.email # user.email
                        /\ EmailTaken(users, toLowerCase(body.email), id) THEN 400
                ELSE 0
    IN
    /\ reqs[r].pc = "idle"
    /\ reqs' = [reqs EXCEPT ![r] =
                  Request("updateUser", IF code = 0 THEN "write" ELSE "done",
                          tok, p.user, id, body, code)]
    /\ last' = [Outcome(tok, "updateUserFind", code, p.user) EXCEPT
                    !.body = body, !.count = r]
    /\ UNCHANGED <<users, tasks, nextId, usersGuarded, emitThrows, conns>>

\* User.findByIdAndUpdate(id, fieldsToUpdate) of updateProfile and of
\* updateUser, then 200; on a user deleted meanwhile it returns null
\* (updateProfile then reads user.profile of null)
emailWrite(r) ==
    LET q == reqs[r]
        gone == FindUser(users, q.user) = NoUser
        code == IF gone /\ q.op = "updateProfile" THEN 500 ELSE 200
    IN
    /\ q.pc = "write"
    /\ q.op \in {"updateProfile", "updateUser"}
    /\ users' = IF gone THEN users
                  ELSE [users EXCEPT ![q.user].email = toLowerCase(q.body.email)]
    /\ reqs' = [reqs EXCEPT ![r].pc = "done", ![r].code = code]
    /\ last' = [Outcome(q.token, q.op, code, q.actor) EXCEPT
                    !.body = q.body, !.count = r]
    /\ UNCHANGED <<tasks, nextId, usersGuarded, emitThrows, conns>>

(***************************************************************************)
(* Socket.IO.  A connection's rooms are user_<id>, role_<role> and         *)
(* task_<taskId>, kept here by prefix.                                     *)
(***************************************************************************)
NoRooms == [user |-> {}, role |-> {}, task |-> {}]
NoConn == [state |-> "none", user |-> NoActor, rooms |-> NoRooms]

\* authenticateSocket without the isActive test
authenticateSocket_IgnoreActive(us, tok) ==
    IF tok.kind # "jwt" THEN [code |-> 401, user |-> NoActor]
    ELSE IF FindUser(us, tok.id) = NoUser THEN [code |-> 401, user |-> NoActor]
    ELSE [code |-> 0, user |-> Actor(us, tok.id)]

\* authenticateSocket: the handshake is refused without a token, with a token
\* that does not verify, with no user under decoded.id or with an inactive
\* user; else socket.user is set
authenticateSocket(us, tok) ==
    IF tok.kind = "none" THEN [code |-> 401, user |-> NoActor]
    ELSE IF tok.kind = "bad" THEN [code |-> 401, user |-> NoActor]
    ELSE LET user == FindUser(us, tok.id) IN
         IF user = NoUser \/ ~user.isActive THEN [code |-> 401, user |-> NoActor]
         ELSE [code |-> 0, user |-> Actor(us, tok.id)]

\* the connected sockets in a room
Members(cs, prefix, name) == {c \in Open(cs) : name \in cs[c].rooms[prefix]}

\* socket.to(room): the room without the sender
To(cs, c, prefix, name) == Members(cs, prefix, name) \ {c}

\* a broadcast that includes the sender
Broadcast_All(cs, c) == Open(cs)

\* socket.broadcast: every connected socket but the sender
Broadcast(cs, c) == Open(cs) \ {c}

Sent(c, op, event, recipients) ==
    [Idle EXCEPT !.op = op, !.conn = c, !.actor = conns[c].user,
                 !.event = event, !.to = recipients]

\* a new connection: io.use(authenticateSocket), then io.on('connection')
\* joins the user room and the role room and greets the socket
connect(c, tok) ==
    LET a == authenticateSocket(users, tok) IN
    /\ conns[c].state = "none"
    /\ \A d \in ConnIds : d < c => conns[d].state # "none"
    /\ IF a.code # 0 THEN
          /\ last' = [Outcome(tok, "connect", a.code, NoActor) EXCEPT !.conn = c]
          /\ UNCHANGED conns
       ELSE
          /\ conns' = [conns EXCEPT ![c] =
                          [state |-> "open", user |-> a.user,
                           rooms |-> [user |-> {a.user.id}, role |-> {a.user.role},
                                      task |-> {}]]]
          /\ last' = [Outcome(tok, "connect", 0, a.user) EXCEPT
                          !.conn = c, !.event = "connected", !.to = {c}]
    /\ UNCHANGED <<users, tasks, nextId, usersGuarded, emitThrows, reqs>>

\* a join that replaces the task rooms the socket is in
joinTask_Exclusive(c, taskId) ==
    /\ conns[c].state = "open"
    /\ conns' = [conns EXCEPT ![c].rooms.task = {taskId}]
    /\ last' = [Sent(c, "joinTask", "none", {}) EXCEPT !.task = taskId]
    /\ UNCHANGED <<users, tasks, nextId, usersGuarded, emitThrows, reqs>>

\* socket.join(`task_${taskId}`)
joinTask(c, taskId) ==
    /\ conns[c].state = "open"
    /\ conns' = [conns EXCEPT ![c].rooms.task = @ \cup {taskId}]
    /\ last' = [Sent(c, "joinTask", "none", {}) EXCEPT !.task = taskId]
    /\ UNCHANGED <<users, tasks, nextId, usersGuarded, emitThrows, reqs>>

\* a leaveTask that drops every room of the socket
leaveTask_LeaveAll(c, taskId) ==
    /\ conns[c].state = "open"
    /\ conns' = [conns EXCEPT ![c].rooms = NoRooms]
    /\ last' = [Sent(c, "leaveTask", "none", {}) EXCEPT !.task = taskId]
    /\ UNCHANGED <<users, tasks, nextId, usersGuarded, emitThrows, reqs>>

\* socket.leave(`task_${taskId}`): only a room with the task_ prefix
leaveTask(c, taskId) ==
    /\ conns[c].state = "open"
    /\ conns' = [conns EXCEPT ![c].rooms.task = @ \ {taskId}]
    /\ last' = [Sent(c, "leaveTask", "none", {}) EXCEPT !.task = taskId]
    /\ UNCHANGED <<users, tasks, nextId, usersGuarded, emitThrows, reqs>>

\* the recipients of an event sent to the task room and to both staff rooms
TaskAndStaff(cs, c, taskId) ==
    To(cs, c, "task", taskId) \cup To(cs, c, "role", "admin") \cup To(cs, c, "role", "vendor")

taskUpdate(c, taskId) ==
    /\ conns[c].state = "open"
    /\ last' = [Sent(c, "taskUpdate", "taskUpdated", TaskAndStaff(conns, c, taskId))
                    EXCEPT !.task = taskId]
    /\ UNCHANGED <<users, tasks, nextId, usersGuarded, emitThrows, reqs, conns>>

newComment(c, taskId) ==
    /\ conns[c].state = "open"
    /\ last' = [Sent(c, "newComment", "commentAdded", To(conns, c, "task", taskId))
                    EXCEPT !.task = taskId]
    /\ UNCHANGED <<users, tasks, nextId, usersGuarded, emitThrows, reqs, conns>>

typing(c, taskId) ==
    /\ conns[c].state = "open"
    /\ last' = [Sent(c, "typing", "userTyping", To(conns, c, "task", taskId))
                    EXCEPT !.task = taskId]
    /\ UNCHANGED <<users, tasks, nextId, usersGuarded, emitThrows, reqs, conns>>

statusChange(c, taskId) ==
    /\ conns[c].state = "open"
    /\ last' = [Sent(c, "statusChange", "taskStatusChanged", TaskAndStaff(conns, c, taskId))
                    EXCEPT !.task = taskId]
    /\ UNCHANGED <<users, tasks, nextId, usersGuarded, emitThrows, reqs, conns>>

updatePresence(c) ==
    /\ conns[c].state = "open"
    /\ last' = Sent(c, "updatePresence", "userPresenceUpdate", Broadcast(conns, c))
    /\ UNCHANGED <<users, tasks, nextId, usersGuarded, emitThrows, reqs, conns>>

\* a notification sent to every other socket
sendNotification_Broadcast(c, data) ==
    /\ conns[c].state = "open"
    /\ last' = [Sent(c, "sendNotification", "notification", Broadcast(conns, c))
                    EXCEPT !.body = data]
    /\ UNCHANGED <<users, tasks, nextId, usersGuarded, emitThrows, reqs, conns>>

\* data.targetUserId may be missing: then nothing is sent
sendNotification(c, data) ==
    /\ conns[c].state = "open"
    /\ last' = [Sent(c, "sendNotification",
                     IF Has(data, "targetUserId") THEN "notification" ELSE "none",
                     IF Has(data, "targetUserId")
                        THEN To(conns, c, "user", data.targetUserId) ELSE {})
                    EXCEPT !.body = data]
    /\ UNCHANGED <<users, tasks, nextId, usersGuarded, emitThrows, reqs, conns>>

bulkOperation(c) ==
    /\ conns[c].state = "open"
    /\ last' = Sent(c, "bulkOperation", "bulkOperationPerformed",
                    To(conns, c, "role", "admin")
                        \cup (IF conns[c].user.role # "admin"
                                THEN To(conns, c, "role", "vendor") ELSE {}))
    /\ UNCHANGED <<users, tasks, nextId, usersGuarded, emitThrows, reqs, conns>>

\* a close that leaves the socket's room memberships in place
disconnect_KeepRooms(c) ==
    /\ conns[c].state = "open"
    /\ conns' = [conns EXCEPT ![c].state = "closed"]
    /\ last' = Sent(c, "disconnect", "userPresenceUpdate", Broadcast(conns, c))
    /\ UNCHANGED <<users, tasks, nextId, usersGuarded, emitThrows, reqs>>

\* the socket has left its rooms when 'disconnect' runs; the handler
\* broadcasts the offline presence
disconnect(c) ==
    /\ conns[c].state = "open"
    /\ conns' = [conns EXCEPT ![c].state = "closed", ![c].rooms = NoRooms]
    /\ last' = Sent(c, "disconnect", "userPresenceUpdate", Broadcast(conns, c))
    /\ UNCHANGED <<users, tasks, nextId, usersGuarded, emitThrows, reqs>>

(***************************************************************************)
(* The read side on its own: a stored collection, listed and read          *)
(***************************************************************************)

SeedTitles == {<<"a", "B">>}
SeedTags == {<<"a">>}

\* documents createTask can have stored
SeedTaskDocs ==
    {[NoTask EXCEPT !.title = t, !.status = "todo", !.priority = "medium",
                    !.assigneeId = a, !.createdBy = c, !.dueDate = 1,
                    !.tags = SeedTags, !.isArchived = ar] :
        t \in SeedTitles, a \in {"V1", "C1"}, c \in {"V1", "V2"}, ar \in BOOLEAN}

\* objects with some of their fields left out
Opt(k, vals) == {[x \in {} |-> TRUE]} \cup {[x \in {k} |-> v] : v \in vals}
Merge(a, b) == [x \in (DOMAIN a) \cup (DOMAIN b) |-> IF x \in DOMAIN a THEN a[x] ELSE b[x]]

\* the query strings tried: any subset of the five filters
ListFilters ==
    {Merge(s, Merge(p, Merge(a, Merge(g, q)))) :
        s \in Opt("status", {"todo"}),
        p \in Opt("priority", {"high"}),
        a \in Opt("assigneeId", {"V1", "C1"}),
        g \in Opt("tags", {<<"b", ",", "a">>}),
        q \in Opt("search", {<<"b">>})}

InitRead ==
    /\ users = SeedUsers
    /\ tasks \in [TaskIds -> SeedTaskDocs \cup {NoTask}]
    /\ nextId = MaxTasks + 1
    /\ usersGuarded = TRUE
    /\ emitThrows = FALSE
    /\ reqs = [r \in ReqIds |-> NoReq]
    /\ conns = [c \in ConnIds |-> NoConn]
    /\ last = Idle

NextRead ==
    \/ \E tok \in Tokens, f \in ListFilters : getTasks(tok, f)
    \/ \E tok \in Tokens, id \in TaskIds : getTask(tok, id)

SpecRead == InitRead /\ [][NextRead]_vars

(***************************************************************************)
(* The write side: every task route and the user update, requests from any *)
(* credential.  Ids below MaxTasks belong to tasks deleted earlier.        *)
(***************************************************************************)
Title == <<"a", "B">>
OneSubtask == <<[id |-> 1, completed |-> FALSE]>>

CreateBodies ==
    {[title |-> Title, assigneeId |-> a, dueDate |-> 1, subtasks |-> OneSubtask] :
        a \in {"V1", "C1", GhostId}}

GateTokens == {NoToken, generateToken("A1")} \cup {loginToken(u) : u \in UserIds}

Init ==
    /\ users = SeedUsers
    /\ tasks = [id \in TaskIds |-> NoTask]
    /\ nextId = MaxTasks
    /\ usersGuarded \in BOOLEAN
    /\ emitThrows = FALSE
    /\ reqs = [r \in ReqIds |-> NoReq]
    /\ conns = [c \in ConnIds |-> NoConn]
    /\ last = Idle

Next ==
    \/ \E tok \in GateTokens, body \in CreateBodies : createTask(tok, body)
    \/ \E tok \in GateTokens, id \in TaskIds : updateTask(tok, id, [priority |-> "high"])
    \/ \E tok \in GateTokens, id \in TaskIds : deleteTask(tok, id)
    \/ \E tok \in GateTokens, ids \in {{}, TaskIds} :
          bulkUpdateTasks(tok, ids, [priority |-> "high"])
    \/ \E tok \in GateTokens, ids \in {{}, TaskIds} : bulkDeleteTasks(tok, ids)
    \/ \E tok \in GateTokens, id \in TaskIds : addComment(tok, id, "c")
    \/ \E tok \in GateTokens, id \in TaskIds :
          updateSubtask(tok, id, 1, [completed |-> TRUE])
    \/ \E tok \in GateTokens, id \in {"A1", "V1", "C1"}, active \in BOOLEAN :
          updateUser(tok, id, [isActive |-> active])
    \/ \E tok \in GateTokens : getTasks(tok, [x \in {} |-> TRUE])
    \/ \E tok \in GateTokens, id \in TaskIds : getTask(tok, id)

Spec == Init /\ [][Next]_vars

(***************************************************************************)
(* Editing one task: the admin, a vendor and the customer it is assigned   *)
(* to create, update, comment and tick subtasks                            *)
(***************************************************************************)
EditTokens == {loginToken("A1"), loginToken("V1"), loginToken("C1")}

EditCreateBodies ==
    {Merge([title |-> Title, assigneeId |-> "C1", dueDate |-> 1, subtasks |-> OneSubtask], st) :
        st \in Opt("status", {"done"})}

EditBodies ==
    {[status |-> st] : st \in Statuses}
        \cup {[assigneeId |-> "V1"], [priority |-> "high"], [dueDate |-> 2],
              [comments |-> <<>>]}

InitEdit ==
    /\ users = SeedUsers
    /\ tasks = [id \in TaskIds |-> NoTask]
    /\ nextId = MaxTasks
    /\ usersGuarded = TRUE
    /\ emitThrows = FALSE
    /\ reqs = [r \in ReqIds |-> NoReq]
    /\ conns = [c \in ConnIds |-> NoConn]
    /\ last = Idle

NextEdit ==
    \/ \E tok \in EditTokens, body \in EditCreateBodies : createTask(tok, body)
    \/ \E tok \in EditTokens, id \in TaskIds, body \in EditBodies : updateTask(tok, id, body)
    \/ \E tok \in EditTokens, st \in {"todo", "done"} :
          bulkUpdateTasks(tok, TaskIds, [status |-> st])
    \/ \E tok \in EditTokens, id \in TaskIds : addComment(tok, id, "c")
    \/ \E tok \in EditTokens, id \in TaskIds :
          updateSubtask(tok, id, 1, [completed |-> TRUE])

SpecEdit == InitEdit /\ [][NextEdit]_vars

(***************************************************************************)
(* Bulk operations over a stored collection of differently owned tasks     *)
(***************************************************************************)
BulkSeedDocs ==
    {[NoTask EXCEPT !.title = Title, !.status = "todo", !.priority = "medium",
                    !.assigneeId = a, !.createdBy = c, !.dueDate = 1] :
        a \in {"V1", "C1"}, c \in {"V1", "V2"}}

BulkTokens == {NoToken} \cup {loginToken(u) : u \in UserIds}

BulkBodies ==
    {[priority |-> "high"], [status |-> "done"], [assigneeId |-> "V2"],
     [assigneeId |-> GhostId]}

InitBulk ==
    /\ users = SeedUsers
    /\ tasks \in [TaskIds -> BulkSeedDocs \cup {NoTask}]
    /\ nextId = MaxTasks + 1
    /\ usersGuarded = TRUE
    /\ emitThrows = FALSE
    /\ reqs = [r \in ReqIds |-> NoReq]
    /\ conns = [c \in ConnIds |-> NoConn]
    /\ last = Idle

NextBulk ==
    \/ \E tok \in BulkTokens, ids \in (SUBSET TaskIds) \ {{}}, body \in BulkBodies :
          bulkUpdateTasks(tok, ids, body)
    \/ \E tok \in BulkTokens, ids \in SUBSET TaskIds : bulkDeleteTasks(tok, ids)

SpecBulk == InitBulk /\ [][NextBulk]_vars

(***************************************************************************)
(* The realtime side: connections of three users, while the admin          *)
(* activates and deactivates accounts                                      *)
(***************************************************************************)
SocketTokens == {NoToken, loginToken("V1")} \cup {generateToken(u) : u \in {"A1", "V1", "C1"}}

InitRT ==
    /\ users = SeedUsers
    /\ tasks = [id \in TaskIds |-> NoTask]
    /\ nextId = 1
    /\ usersGuarded = TRUE
    /\ emitThrows = FALSE
    /\ reqs = [r \in ReqIds |-> NoReq]
    /\ conns = [c \in ConnIds |-> NoConn]
    /\ last = Idle

NextRT ==
    \/ \E c \in ConnIds, tok \in SocketTokens : connect(c, tok)
    \/ \E c \in ConnIds, t \in TaskIds : joinTask(c, t)
    \/ \E c \in ConnIds, t \in TaskIds : leaveTask(c, t)
    \/ \E c \in ConnIds, t \in TaskIds : taskUpdate(c, t)
    \/ \E c \in ConnIds, t \in TaskIds : newComment(c, t)
    \/ \E c \in ConnIds, t \in TaskIds : typing(c, t)
    \/ \E c \in ConnIds, t \in TaskIds : statusChange(c, t)
    \/ \E c \in ConnIds : updatePresence(c)
    \/ \E c \in ConnIds, data \in Opt("targetUserId", {"A1", "V1"}) : sendNotification(c, data)
    \/ \E c \in ConnIds : bulkOperation(c)
    \/ \E c \in ConnIds : disconnect(c)
    \/ \E id \in {"V1", "C1"}, active \in BOOLEAN :
          updateUser(loginToken("A1"), id, [isActive |-> active])

SpecRT == InitRT /\ [][NextRT]_vars

(***************************************************************************)
(* Requests and sockets together: a stored task, REST mutations by the     *)
(* admin, a vendor and a customer, connections of a customer, a vendor and *)
(* the admin, and a publisher that works or throws                         *)
(***************************************************************************)
\* a task a vendor created for the customer
FanSeedTask ==
    [NewTask EXCEPT !.title = Title, !.assigneeId = "C1", !.createdBy = "V1",
                    !.dueDate = 1, !.subtasks = OneSubtask]

FanTokens == {loginToken("A1"), loginToken("C1"), generateToken("V1")}
FanSocketTokens == {generateToken("C1"), generateToken("V1"), loginToken("A1")}

InitFan ==
    /\ users = SeedUsers
    /\ tasks = [id \in TaskIds |-> IF id = 1 THEN FanSeedTask ELSE NoTask]
    /\ nextId = 2
    /\ usersGuarded = TRUE
    /\ emitThrows \in BOOLEAN
    /\ reqs = [r \in ReqIds |-> NoReq]
    /\ conns = [c \in ConnIds |-> NoConn]
    /\ last = Idle

NextFan ==
    \/ \E c \in ConnIds, tok \in FanSocketTokens : connect(c, tok)
    \/ \E c \in ConnIds : joinTask(c, 1)
    \/ \E c \in ConnIds : leaveTask(c, 1)
    \/ \E c \in ConnIds : disconnect(c)
    \/ \E c \in ConnIds : taskUpdate(c, 1)
    \/ \E c \in ConnIds : newComment(c, 1)
    \/ \E c \in ConnIds : statusChange(c, 1)
    \/ \E c \in ConnIds : bulkOperation(c)
    \/ \E tok \in FanTokens :
          createTask(tok, [title |-> Title, assigneeId |-> "C1", dueDate |-> 1,
                           subtasks |-> OneSubtask])
    \/ \E tok \in FanTokens : updateTask(tok, 1, [priority |-> "high"])
    \/ \E tok \in FanTokens : deleteTask(tok, 1)
    \/ \E tok \in FanTokens : bulkUpdateTasks(tok, {1}, [priority |-> "high"])
    \/ \E tok \in FanTokens : bulkDeleteTasks(tok, {1})
    \/ \E tok \in FanTokens : addComment(tok, 1, "c")
    \/ \E tok \in FanTokens : updateSubtask(tok, 1, 1, [completed |-> TRUE])

SpecFan == InitFan /\ [][NextFan]_vars

(***************************************************************************)
(* Users and their tasks: tasks are created, reassigned and archived while *)
(* the admin deactivates and deletes users                                 *)
(***************************************************************************)
StaffTokens == {loginToken("A1"), loginToken("V1")}

ReassignBodies == {[assigneeId |-> "V2"], [assigneeId |-> GhostId]}

InitUsers ==
    /\ users = SeedUsers
    /\ tasks = [id \in TaskIds |-> NoTask]
    /\ nextId = 1
    /\ usersGuarded = TRUE
    /\ emitThrows = FALSE
    /\ reqs = [r \in ReqIds |-> NoReq]
    /\ conns = [c \in ConnIds |-> NoConn]
    /\ last = Idle

NextUsers ==
    \/ \E tok \in StaffTokens, a \in {"C1", "V2", GhostId} :
          createTask(tok, [title |-> Title, assigneeId |-> a, dueDate |-> 1])
    \/ \E tok \in StaffTokens, id \in TaskIds,
           body \in ReassignBodies \cup {[isArchived |-> ar] : ar \in BOOLEAN} :
          updateTask(tok, id, body)
    \/ \E tok \in StaffTokens, body \in ReassignBodies :
          bulkUpdateTasks(tok, TaskIds, body)
    \/ \E id \in {"C1", "V2"}, active \in BOOLEAN :
          updateUser(loginToken("A1"), id, [isActive |-> active])
    \/ \E tok \in StaffTokens, id \in {"C1", "V2"} : deleteUser(tok, id)

SpecUsers == InitUsers /\ [][NextUsers]_vars

(***************************************************************************)
(* Listings and statistics over a stored collection with archived tasks    *)
(***************************************************************************)
StatsSeedDocs ==
    {[NewTask EXCEPT !.title = Title, !.status = st, !.assigneeId = a,
                     !.createdBy = "V1", !.dueDate = d, !.isArchived = ar,
                     !.completedAt = IF st = "done" THEN 1 ELSE Null] :
        st \in {"todo", "done"}, a \in {"V1", "C1"}, d \in {1, 3}, ar \in BOOLEAN}

StatsTokens == {NoToken, loginToken("A1"), loginToken("V1"), loginToken("C1")}

StatsFilters ==
    {Merge(s, a) : s \in Opt("status", {"todo"}), a \in Opt("assigneeId", {"V1", "C1"})}

InitStats ==
    /\ users = SeedUsers
    /\ tasks \in [TaskIds -> StatsSeedDocs \cup {NoTask}]
    /\ nextId = MaxTasks + 1
    /\ usersGuarded = TRUE
    /\ emitThrows = FALSE
    /\ reqs = [r \in ReqIds |-> NoReq]
    /\ conns = [c \in ConnIds |-> NoConn]
    /\ last = Idle

NextStats ==
    \/ \E tok \in StatsTokens, f \in StatsFilters : getTasks(tok, f)
    \/ \E tok \in StatsTokens : getTaskStats(tok)
    \/ \E tok \in StatsTokens : getOverdueTasks(tok, 2)
    \/ \E tok \in StatsTokens, id \in {"V1", "C1", GhostId} : getUser(tok, id)

SpecStats == InitStats /\ [][NextStats]_vars

(***************************************************************************)
(* Requests that name what is not there: tasks and subtasks that do not    *)
(* exist, assignees that are no user                                       *)
(***************************************************************************)
RefTokens == {loginToken("A1"), loginToken("V1"), loginToken("C1")}

RefBodies == {[assigneeId |-> GhostId], [priority |-> "high"]}

InitRefs ==
    /\ users = SeedUsers
    /\ tasks = [id \in TaskIds |-> NoTask]
    /\ nextId = 1
    /\ usersGuarded = TRUE
    /\ emitThrows = FALSE
    /\ reqs = [r \in ReqIds |-> NoReq]
    /\ conns = [c \in ConnIds |-> NoConn]
    /\ last = Idle

NextRefs ==
    \/ \E tok \in RefTokens, a \in {"C1", GhostId} :
          createTask(tok, [title |-> Title, assigneeId |-> a, dueDate |-> 1,
                           subtasks |-> OneSubtask])
    \/ \E tok \in RefTokens, id \in TaskIds, body \in RefBodies : updateTask(tok, id, body)
    \/ \E tok \in RefTokens, id \in TaskIds : deleteTask(tok, id)
    \/ \E tok \in RefTokens, body \in RefBodies : bulkUpdateTasks(tok, TaskIds, body)
    \/ \E tok \in RefTokens, id \in TaskIds : addComment(tok, id, "c")
    \/ \E tok \in RefTokens, id \in TaskIds, sub \in {1, 2} :
          updateSubtask(tok, id, sub, [completed |-> TRUE])

SpecRefs == InitRefs /\ [][NextRefs]_vars

(***************************************************************************)
(* The save hook on its own: stored tasks in every combination of status   *)
(* and completedAt, saved with a status at later times                     *)
(***************************************************************************)
SaveTimes == {2, 3}

SaveDocs ==
    {[NewTask EXCEPT !.title = Title, !.status = st, !.assigneeId = "C1",
                     !.createdBy = "V1", !.dueDate = 1, !.completedAt = at] :
        st \in Statuses, at \in {Null, 1}}

InitSave ==
    /\ users = SeedUsers
    /\ tasks \in [TaskIds -> SaveDocs \cup {NoTask}]
    /\ nextId = MaxTasks + 1
    /\ usersGuarded = TRUE
    /\ emitThrows = FALSE
    /\ reqs = [r \in ReqIds |-> NoReq]
    /\ conns = [c \in ConnIds |-> NoConn]
    /\ last = Idle

NextSave ==
    \E id \in TaskIds, st \in Statuses, m \in BOOLEAN, now \in SaveTimes : save(id, st, m, now)

SpecSave == InitSave /\ [][NextSave]_vars

(***************************************************************************)
(* Subtask progress: a stored task with any number of subtasks, any number *)
(* of them completed, read by the admin and by its assignee                *)
(***************************************************************************)
\* `total` subtasks, the first `completed` of them ticked
Subtasks(completed, total) ==
    [i \in 1..total |-> [id |-> i, completed |-> i <= completed]]

ProgressTokens == {loginToken("A1"), loginToken("C1")}

InitProgress ==
    /\ users = SeedUsers
    /\ \E total \in 0..MaxSubtasks : \E completed \in 0..total :
          tasks = [id \in TaskIds |->
                      IF id = 1 THEN [FanSeedTask EXCEPT !.subtasks = Subtasks(completed, total)]
                                ELSE NoTask]
    /\ nextId = 2
    /\ usersGuarded = TRUE
    /\ emitThrows = FALSE
    /\ reqs = [r \in ReqIds |-> NoReq]
    /\ conns = [c \in ConnIds |-> NoConn]
    /\ last = Idle

NextProgress ==
    \E tok \in ProgressTokens : getTask(tok, 1)

SpecProgress == InitProgress /\ [][NextProgress]_vars

(***************************************************************************)
(* Racing updates: requests by the admin and the assignee on one stored    *)
(* task, their steps interleaved in every order                            *)
(***************************************************************************)
RaceTokens == {loginToken("A1"), loginToken("C1"), loginToken("V2")}

RaceBodies ==
    {[priority |-> "high"], [priority |-> "low"], [status |-> "done"],
     [priority |-> "low", status |-> "inprogress"]}

InitRace ==
    /\ users = SeedUsers
    /\ tasks = [id \in TaskIds |-> IF id = 1 THEN FanSeedTask ELSE NoTask]
    /\ nextId = 2
    /\ usersGuarded = TRUE
    /\ emitThrows = FALSE
    /\ reqs = [r \in ReqIds |-> NoReq]
    /\ conns = [c \in ConnIds |-> NoConn]
    /\ last = Idle

NextRace ==
    \/ \E r \in ReqIds, tok \in RaceTokens, body \in RaceBodies : updateTaskFind(r, tok, 1, body)
    \/ \E r \in ReqIds : updateTaskWrite(r)

SpecRace == InitRace /\ [][NextRace]_vars

(***************************************************************************)
(* The user directory: every user route, requests from any credential,     *)
(* with the router mounted behind protect or as routes/userRoutes.js       *)
(* leaves it                                                               *)
(***************************************************************************)
DirTokens == {NoToken, BadToken, loginToken("A1"), loginToken("V1"), loginToken("C1")}

InitDir ==
    /\ users = SeedUsers
    /\ tasks = [id \in TaskIds |-> NoTask]
    /\ nextId = 1
    /\ usersGuarded \in BOOLEAN
    /\ emitThrows = FALSE
    /\ reqs = [r \in ReqIds |-> NoReq]
    /\ conns = [c \in ConnIds |-> NoConn]
    /\ last = Idle

NextDir ==
    \/ \E tok \in DirTokens : getUsers(tok)
    \/ \E tok \in DirTokens : getUserStats(tok)
    \/ \E tok \in DirTokens, id \in {"V1", GhostId} : getUser(tok, id)
    \/ \E tok \in DirTokens, id \in {"V1", "C1", GhostId}, active \in BOOLEAN :
          updateUser(tok, id, [isActive |-> active])
    \/ \E tok \in DirTokens, id \in {"C1", GhostId} : deleteUser(tok, id)

SpecDir == InitDir /\ [][NextDir]_vars

(***************************************************************************)
(* Task rooms: connections of the assignee, of a vendor who neither        *)
(* created the stored task nor is assigned to it, and of the admin         *)
(***************************************************************************)
JoinTokens == {generateToken("C1"), generateToken("V2"), generateToken("A1")}

InitJoin ==
    /\ users = SeedUsers
    /\ tasks = [id \in TaskIds |-> IF id = 1 THEN FanSeedTask ELSE NoTask]
    /\ nextId = 2
    /\ usersGuarded = TRUE
    /\ emitThrows = FALSE
    /\ reqs = [r \in ReqIds |-> NoReq]
    /\ conns = [c \in ConnIds |-> NoConn]
    /\ last = Idle

NextJoin ==
    \/ \E c \in ConnIds, tok \in JoinTokens : connect(c, tok)
    \/ \E c \in ConnIds, t \in TaskIds : joinTask(c, t)
    \/ \E c \in ConnIds, t \in TaskIds : leaveTask(c, t)
    \/ \E c \in ConnIds : newComment(c, 1)
    \/ \E c \in ConnIds : typing(c, 1)
    \/ \E c \in ConnIds : disconnect(c)

SpecJoin == InitJoin /\ [][NextJoin]_vars

(***************************************************************************)
(* Emails: the admin and a vendor are stored, visitors register, the       *)
(* vendor edits her profile and the admin edits the vendor, a few requests *)
(* at a time                                                               *)
(***************************************************************************)
MailUsers == [u \in UserIds |-> IF u \in {"A1", "V1"} THEN SeedUsers[u] ELSE NoUser]

Mails == {"p@x", "P@x", "a1@x"}

InitMail ==
    /\ users = MailUsers
    /\ tasks = [id \in TaskIds |-> NoTask]
    /\ nextId = 1
    /\ usersGuarded = TRUE
    /\ emitThrows = FALSE
    /\ reqs = [r \in ReqIds |-> NoReq]
    /\ conns = [c \in ConnIds |-> NoConn]
    /\ last = Idle

NextMail ==
    \/ \E r \in ReqIds, e \in {"p@x", "a1@x"} : registerFind(r, [email |-> e])
    \/ \E r \in ReqIds : registerCreate(r)
    \/ \E r \in ReqIds, e \in Mails : updateProfileFind(r, loginToken("V1"), [email |-> e])
    \/ \E r \in ReqIds, tok \in {loginToken("A1"), loginToken("V1")}, e \in Mails :
          updateUserFind(r, tok, "V1", [email |-> e])
    \/ \E r \in ReqIds : emailWrite(r)

SpecMail == InitMail /\ [][NextMail]_vars

(***************************************************************************)
(* Updates racing deletions: the steps of updateTask requests on the       *)
(* stored task interleaved with the admin's deleteTask and bulkDeleteTasks *)
(***************************************************************************)
InitGone ==
    /\ users = SeedUsers
    /\ tasks = [id \in TaskIds |-> IF id = 1 THEN FanSeedTask ELSE NoTask]
    /\ nextId = 2
    /\ usersGuarded = TRUE
    /\ emitThrows = FALSE
    /\ reqs = [r \in ReqIds |-> NoReq]
    /\ conns = [c \in ConnIds |-> NoConn]
    /\ last = Idle

NextGone ==
    \/ \E r \in ReqIds, tok \in RaceTokens, body \in RaceBodies : updateTaskFind(r, tok, 1, body)
    \/ \E r \in ReqIds : updateTaskWrite(r)
    \/ \E tok \in RaceTokens : deleteTask(tok, 1)
    \/ \E tok \in RaceTokens : bulkDeleteTasks(tok, {1})

SpecGone == InitGone /\ [][NextGone]_vars

(***************************************************************************)
(* Creators: payloads that name a creator, sent to createTask, updateTask  *)
(* and bulkUpdateTasks by the admin, the creating vendor and the assignee  *)
(***************************************************************************)
OwnerBodies == {[createdBy |-> "V2"], [createdBy |-> "C1"], [priority |-> "high"]}

InitOwner ==
    /\ users = SeedUsers
    /\ tasks = [id \in TaskIds |-> IF id = 1 THEN FanSeedTask ELSE NoTask]
    /\ nextId = 2
    /\ usersGuarded = TRUE
    /\ emitThrows = FALSE
    /\ reqs = [r \in ReqIds |-> NoReq]
    /\ conns = [c \in ConnIds |-> NoConn]
    /\ last = Idle

NextOwner ==
    \/ \E tok \in FanTokens, extra \in Opt("createdBy", {"V2"}) :
          createTask(tok, Merge([title |-> Title, assigneeId |-> "C1", dueDate |-> 1],
                                extra))
    \/ \E tok \in FanTokens, id \in TaskIds, body \in OwnerBodies :
          updateTask(tok, id, body)
    \/ \E tok \in FanTokens, body \in OwnerBodies : bulkUpdateTasks(tok, TaskIds, body)

SpecOwner == InitOwner /\ [][NextOwner]_vars

(***************************************************************************)
(* Roles: the admin changes the roles of users whose connections are open  *)
(***************************************************************************)
RoleSocketTokens == {generateToken("A1"), generateToken("V1"), generateToken("C1")}

InitRole ==
    /\ users = SeedUsers
    /\ tasks = [id \in TaskIds |-> IF id = 1 THEN FanSeedTask ELSE NoTask]
    /\ nextId = 2
    /\ usersGuarded = TRUE
    /\ emitThrows = FALSE
    /\ reqs = [r \in ReqIds |-> NoReq]
    /\ conns = [c \in ConnIds |-> NoConn]
    /\ last = Idle

NextRole ==
    \/ \E c \in ConnIds, tok \in RoleSocketTokens : connect(c, tok)
    \/ \E c \in ConnIds : disconnect(c)
    \/ \E c \in ConnIds : bulkOperation(c)
    \/ \E c \in ConnIds : taskUpdate(c, 1)
    \/ \E id \in {"V1", "C1"}, role \in Roles :
          updateUser(loginToken("A1"), id, [role |-> role])

SpecRole == InitRole /\ [][NextRole]_vars

(***************************************************************************)
(* Comments and subtasks together: a few addComment and updateSubtask      *)
(* requests on one stored task with two subtasks, their steps interleaved  *)
(* in every order                                                          *)
(***************************************************************************)
TwoSubtasks == <<[id |-> 1, completed |-> FALSE], [id |-> 2, completed |-> FALSE]>>

NoteSeedTask == [FanSeedTask EXCEPT !.subtasks = TwoSubtasks]

NoteTokens == {loginToken("A1"), loginToken("C1"), loginToken("V2")}

InitNote ==
    /\ users = SeedUsers
    /\ tasks = [id \in TaskIds |-> IF id = 1 THEN NoteSeedTask ELSE NoTask]
    /\ nextId = 2
    /\ usersGuarded = TRUE
    /\ emitThrows = FALSE
    /\ reqs = [r \in ReqIds |-> NoReq]
    /\ conns = [c \in ConnIds |-> NoConn]
    /\ last = Idle

NextNote ==
    \/ \E r \in ReqIds, tok \in NoteTokens : addCommentFind(r, tok, 1, "c")
    \/ \E r \in ReqIds : addCommentSave(r)
    \/ \E r \in ReqIds, tok \in NoteTokens, sub \in {1, 2}, done \in BOOLEAN :
          updateSubtaskFind(r, tok, 1, sub, [completed |-> done])
    \/ \E r \in ReqIds : updateSubtaskSave(r)

SpecNote == InitNote /\ [][NextNote]_vars

(***************************************************************************)
(* Claims about the read side (SpecRead)                                   *)
(***************************************************************************)
Listed == last.op = "getTasks" /\ last.code = 200

\* C1: the role scope of the listing admits a task iff the single-task read
\* permits the actor to read it, and whatever filters come with the request
\* every task the listing returns is one getTask would return to that actor.
C1_ListAgreesWithDetail ==
    Listed =>
        /\ \A id \in TaskIds :
              Exists(tasks, id) =>
                  (Matches(tasks[id], RoleScope([x \in {} |-> TRUE], last.actor))
                      <=> getTaskCode(users, last.actor, tasks[id]) = 200)
        /\ \A id \in last.result : getTaskCode(users, last.actor, tasks[id]) = 200

\* C5: every task in a customer's listing is assigned to that customer.
C5_CustomerListsOnlyOwn ==
    (Listed /\ last.actor.role = "customer") =>
        \A id \in last.result : tasks[id].assigneeId = last.actor.id

(***************************************************************************)
(* Claims about the gates of the write side (Spec)                         *)
(***************************************************************************)
GatedOps == {"updateTask", "addComment", "updateSubtask"}
TaskOps ==
    {"getTasks", "getTask", "createTask", "updateTask", "deleteTask",
     "bulkUpdateTasks", "bulkDeleteTasks", "addComment", "updateSubtask"}

\* the Visibility Policy for update, addComment and updateSubtask
MayTouch(user, task) ==
    \/ user.role = "admin"
    \/ user.role = "vendor" /\ (task.createdBy = user.id \/ task.assigneeId = user.id)
    \/ user.role = "customer" /\ task.assigneeId = user.id

\* C7: on an existing task, update, addComment and updateSubtask by an
\* authenticated actor are refused with 403 exactly when the policy denies
\* the actor (admin always passes; vendor iff creator or assignee; customer
\* iff assignee), and a refused request leaves every task as it was.
C7_AccessGate ==
    [][(last'.op \in GatedOps /\ last'.actor # NoActor /\ Exists(tasks, last'.task))
          => /\ (last'.code = 403 <=> ~MayTouch(last'.actor, tasks[last'.task]))
             /\ (last'.code = 403 => tasks' = tasks)]_vars

C7_Witness ==
    /\ last.op \in GatedOps
    /\ last.code = 403
    /\ Exists(tasks, last.task)
    /\ last.actor.role = "vendor"
    /\ \E id \in TaskIds : Len(tasks[id].comments) > 0

\* C8: deleteTask and bulkDeleteTasks succeed only for an admin, createTask
\* and bulkUpdateTasks only for an admin or a vendor; a customer's request
\* to any of the four and a vendor's request to delete is answered 403, and
\* a refused request leaves the set of tasks unchanged.
C8_RoleGates ==
    [][/\ (last'.op \in {"deleteTask", "bulkDeleteTasks"} /\ last'.code \in {200, 201})
            => last'.actor.role = "admin"
       /\ (last'.op \in {"createTask", "bulkUpdateTasks"} /\ last'.code \in {200, 201})
            => last'.actor.role \in {"admin", "vendor"}
       /\ (\/ last'.op \in {"deleteTask", "bulkDeleteTasks"}
              /\ last'.actor.role \in {"vendor", "customer"}
           \/ last'.op \in {"createTask", "bulkUpdateTasks"}
              /\ last'.actor.role = "customer")
            => (last'.code = 403 /\ tasks' = tasks)]_vars

C8_Witness ==
    /\ last.op = "deleteTask"
    /\ last.code = 403
    /\ last.actor.role = "vendor"
    /\ Exists(tasks, last.task)

\* the user a credential names
Subject(tok) == IF tok.userId # Undefined THEN tok.userId ELSE tok.id

\* C9: a task request whose credential names a user that is inactive when
\* the request arrives is answered 401 and changes no task, whatever the
\* user's role.
C9_InactiveRejected ==
    [][(/\ last'.op \in TaskOps
        /\ last'.token.kind = "jwt"
        /\ Subject(last'.token) \in UserIds
        /\ ~users[Subject(last'.token)].isActive)
          => (last'.code = 401 /\ tasks' = tasks)]_vars

\* a login token, which only an active user obtains, refused after the
\* deactivation, on a task the user could touch before
C9_Witness ==
    /\ last.op \in GatedOps
    /\ last.code = 401
    /\ last.token = loginToken("V1")
    /\ ~users["V1"].isActive
    /\ Exists(tasks, last.task)
    /\ MayTouch([id |-> "V1", role |-> users["V1"].role], tasks[last.task])

(***************************************************************************)
(* Claims about editing a task (SpecEdit)                                  *)
(***************************************************************************)
\* C2: every stored task has completedAt set if and only if its status is
\* done.
C2_CompletedIffDone ==
    \A id \in TaskIds :
        Exists(tasks, id) => (tasks[id].completedAt # Null <=> tasks[id].status = "done")

\* C3: a successful updateTask whose body sets status to done leaves the
\* task with completedAt set, and one whose body sets status to todo or
\* inprogress on a task that was done leaves completedAt null.
C3_UpdateRoutesStatus ==
    [][(last'.op = "updateTask" /\ last'.code = 200 /\ Has(last'.body, "status"))
          => /\ last'.body.status = "done" => tasks'[last'.task].completedAt # Null
             /\ (last'.body.status # "done" /\ tasks[last'.task].status = "done")
                    => tasks'[last'.task].completedAt = Null]_vars

\* C4: an update by the customer a task is assigned to whose body names
\* assigneeId, priority or dueDate is answered 403 and leaves the three
\* fields as they were.
C4_CustomerCannotReassign ==
    [][(/\ last'.op = "updateTask"
        /\ last'.actor.role = "customer"
        /\ Exists(tasks, last'.task)
        /\ tasks[last'.task].assigneeId = last'.actor.id
        /\ (DOMAIN last'.body) \cap {"assigneeId", "priority", "dueDate"} # {})
          => /\ last'.code = 403
             /\ tasks'[last'.task].assigneeId = tasks[last'.task].assigneeId
             /\ tasks'[last'.task].priority = tasks[last'.task].priority
             /\ tasks'[last'.task].dueDate = tasks[last'.task].dueDate]_vars

(***************************************************************************)
(* Claims about bulk operations (SpecBulk)                                 *)
(***************************************************************************)
\* the tasks among `ids` that the user created or is assigned to
OwnedAmong(ts, user, ids) ==
    {id \in ids : Exists(ts, id)
                    /\ (ts[id].createdBy = user.id \/ ts[id].assigneeId = user.id)}

\* C6: a vendor's successful bulkUpdateTasks writes the update to exactly
\* the submitted tasks the vendor created or is assigned to, leaves every
\* other task as it was, and reports the number of tasks written, not the
\* number of ids submitted; a refused one changes nothing.
C6_VendorBulkScope ==
    [][(last'.op = "bulkUpdateTasks" /\ last'.actor.role = "vendor")
          => LET owned == OwnedAmong(tasks, last'.actor, last'.ids) IN
             IF last'.code = 200
                THEN /\ \A id \in owned : tasks'[id] = ApplyUpdate(tasks[id], last'.body)
                     /\ \A id \in TaskIds \ owned : tasks'[id] = tasks[id]
                     /\ last'.count = Cardinality(owned)
                ELSE tasks' = tasks]_vars

\* two ids submitted, one of them owned: one task written, count 1
C6_Witness ==
    /\ last.op = "bulkUpdateTasks"
    /\ last.actor.role = "vendor"
    /\ last.code = 200
    /\ Cardinality(last.ids) = 2
    /\ last.count = 1
    /\ \E id \in last.ids : tasks[id].priority = "high"
    /\ \E id \in last.ids : Exists(tasks, id) /\ tasks[id].priority = "medium"

(***************************************************************************)
(* Claims about the realtime side (SpecRT)                                 *)
(***************************************************************************)
RelayOps ==
    {"taskUpdate", "newComment", "statusChange", "sendNotification",
     "bulkOperation", "updatePresence"}

\* C10: while a user is inactive no realtime operation of that user is
\* carried out: a connection attempt with the user's credential is refused,
\* and on a connection the user opened earlier joinTask adds no channel and
\* no message is relayed to anyone.
C10_InactiveRealtimeDenied ==
    [][/\ (/\ last'.op = "connect"
           /\ last'.token.kind = "jwt"
           /\ Subject(last'.token) \in UserIds
           /\ ~users[Subject(last'.token)].isActive)
             => (last'.code = 401 /\ conns' = conns)
       /\ (/\ last'.op \in RelayOps \cup {"joinTask"}
           /\ ~users[conns[last'.conn].user.id].isActive)
             => (conns' = conns /\ last'.to = {})]_vars


C12_FixedUserAndRoleChannels ==
    \A c \in ConnIds :
        conns[c].state = "open"
            => /\ conns[c].rooms.user = {conns[c].user.id}
               /\ conns[c].rooms.role = {conns[c].user.role}

\* a connection that has just left a task channel while still in another
C12_Witness ==
    /\ last.op = "leaveTask"
    /\ conns[last.conn].state = "open"
    /\ last.task \notin conns[last.conn].rooms.task
    /\ conns[last.conn].rooms.task # {}
    /\ conns[last.conn].rooms.user = {conns[last.conn].user.id}

(***************************************************************************)
(* Claims about events and credentials (SpecFan)                           *)
(***************************************************************************)
MutationOps ==
    {"createTask", "updateTask", "deleteTask", "bulkUpdateTasks",
     "bulkDeleteTasks", "addComment", "updateSubtask"}

TaskEvents ==
    {"taskCreated", "taskUpdated", "taskStatusChanged", "taskDeleted",
     "commentAdded", "subtaskUpdated", "tasksBulkUpdated", "tasksBulkDeleted",
     "bulkOperationPerformed"}

\* C13: every recipient of a taskCreated, taskUpdated or taskDeleted event
\* is a member of the task's channel, of role_admin or of role_vendor,
\* whether the event comes from a REST mutation or from a relayed message.
C13_TaskEventChannels ==
    last.event \in {"taskCreated", "taskUpdated", "taskDeleted"}
        => last.to \subseteq (Members(conns, "task", last.task)
                                \cup Members(conns, "role", "admin")
                                \cup Members(conns, "role", "vendor"))

\* C14: every recipient of a commentAdded or subtaskUpdated event for a
\* task is a member of that task's channel, whether the event comes from a
\* REST mutation or from a relayed message.
C14_CommentEventChannel ==
    last.event \in {"commentAdded", "subtaskUpdated"}
        => last.to \subseteq Members(conns, "task", last.task)

\* C15: a mutating request that has written to the task collection is
\* answered with its success code, also when publishing its event fails.
C15_FanoutFailureSwallowed ==
    [][(last'.op \in MutationOps /\ tasks' # tasks) => last'.code \in {200, 201}]_vars

\* C19: an event about a task reaches a connection only in a step that is
\* a REST mutation accepted for its actor and answered with success.
C19_EventsFollowMutations ==
    [][(last'.event \in TaskEvents /\ last'.to # {})
          => (last'.op \in MutationOps /\ last'.code \in {200, 201}
              /\ last'.actor # NoActor)]_vars

\* the tokens register and login hand out
IssuedTokens == {generateToken(u) : u \in UserIds} \cup {loginToken(u) : u \in UserIds}

\* C20: a request or a handshake carrying a token that register or login
\* issued for a user who is active is not refused as unauthenticated, and
\* the actor resolved is that user: by protect for the task routes and by
\* authenticateSocket for a connection alike.
C20_OneIdentityResolution ==
    (/\ last.token \in IssuedTokens
     /\ users[Subject(last.token)].isActive
     /\ last.op \in TaskOps \cup {"connect"})
        => /\ last.code # 401
           /\ last.actor.id = Subject(last.token)

(***************************************************************************)
(* Claims about users and their tasks (SpecUsers)                          *)
(***************************************************************************)
\* C16: the assigneeId of every stored task, archived or not, names a user
\* that exists.
C16_AssigneeExists ==
    \A id \in TaskIds :
        Exists(tasks, id) => FindUser(users, tasks[id].assigneeId) # NoUser

(***************************************************************************)
(* Claims about listings and statistics (SpecStats)                        *)
(***************************************************************************)
ListingOps == {"getTasks", "getOverdueTasks", "getTaskStats", "getUser"}

\* C17: no archived task is among the tasks returned by the task listing or
\* the overdue listing, nor among the tasks counted by the task statistics
\* or by a user's task statistics, and the count reported is the number of
\* those unarchived tasks.
C17_ArchivedExcluded ==
    (last.op \in ListingOps /\ last.code = 200)
        => /\ \A id \in last.result : Exists(tasks, id) /\ ~tasks[id].isArchived
           /\ last.op # "getTasks" => last.count = Cardinality(last.result)

\* statistics asked by the admin over a collection holding an archived task
\* and an unarchived one
C17_Witness ==
    /\ last.op = "getTaskStats"
    /\ last.code = 200
    /\ last.actor.role = "admin"
    /\ last.count = 1
    /\ \E id \in TaskIds : Exists(tasks, id) /\ tasks[id].isArchived

(***************************************************************************)
(* Claims about comments (SpecEdit)                                        *)
(***************************************************************************)
\* seq extends pre: pre is its beginning, element for element
IsPrefix(pre, seq) ==
    /\ Len(pre) <= Len(seq)
    /\ \A i \in 1..Len(pre) : seq[i] = pre[i]

\* C18: in every step a task that exists before and after keeps each of
\* its comments, with the same text, authorId, authorRole and createdAt and
\* at the same position; the comment list changes only by growing at the
\* end.
C18_CommentsAppendOnly ==
    [][\A id \in TaskIds :
          (Exists(tasks, id) /\ Exists(tasks', id))
              => IsPrefix(tasks[id].comments, tasks'[id].comments)]_vars

(***************************************************************************)
(* Claims about archiving (SpecUsers)                                      *)
(***************************************************************************)
\* C21: a step that makes a stored task archived, or removes a stored task,
\* is a request of an admin, and no step changes isArchived of a stored
\* task from true to false.
C21_ArchiveAdminOnlyOneWay ==
    [][\A id \in TaskIds :
          Exists(tasks, id)
              => /\ (Exists(tasks', id) /\ tasks[id].isArchived)
                        => tasks'[id].isArchived
                 /\ (Exists(tasks', id) /\ ~tasks[id].isArchived /\ tasks'[id].isArchived)
                        => last'.actor.role = "admin"
                 /\ ~Exists(tasks', id) => last'.actor.role = "admin"]_vars

(***************************************************************************)
(* Claims about missing targets and references (SpecRefs)                  *)
(***************************************************************************)
\* the request left the collection alone and published nothing
NoEffect == tasks' = tasks /\ nextId' = nextId /\ last'.event = "none" /\ last'.to = {}

BulkEvents == {"bulkOperationPerformed", "tasksBulkUpdated", "tasksBulkDeleted"}

\* C23: every recipient of a bulk-operation event is a member of
\* role_admin, or, when the acting actor is not an admin, of role_vendor,
\* whether the event comes from a relayed bulkOperation message or from
\* bulkUpdateTasks or bulkDeleteTasks.
C23_BulkEventChannels ==
    last.event \in BulkEvents
        => last.to \subseteq
              (Members(conns, "role", "admin")
                  \cup (IF last.actor.role # "admin"
                           THEN Members(conns, "role", "vendor") ELSE {}))

(***************************************************************************)
(* More claims about the realtime side (SpecRT)                            *)
(***************************************************************************)
\* C24: a notification sent with a target user reaches only connections in
\* that user's channel, and a sendNotification without a target publishes
\* nothing.
C24_NotificationChannel ==
    last.op = "sendNotification"
        => IF Has(last.body, "targetUserId")
              THEN /\ last.event = "notification"
                   /\ last.to \subseteq Members(conns, "user", last.body.targetUserId)
              ELSE last.event = "none" /\ last.to = {}

\* a notification that reached the target's connection
C24_Witness ==
    /\ last.op = "sendNotification"
    /\ Has(last.body, "targetUserId")
    /\ last.to # {}
    /\ Cardinality(Open(conns)) = 2

\* C25: an updatePresence message, and the close of a connection, publish
\* one userPresenceUpdate event whose recipients are exactly the other
\* connections open at that moment, never the originating connection; and
\* every step that closes a connection is such a close.
C25_PresenceBroadcast ==
    [][/\ last'.op = "updatePresence"
            => /\ last'.event = "userPresenceUpdate"
               /\ last'.to = Open(conns) \ {last'.conn}
       /\ \A c \in ConnIds :
              (conns[c].state = "open" /\ conns'[c].state # "open")
                  => /\ last'.op = "disconnect"
                     /\ last'.conn = c
                     /\ last'.event = "userPresenceUpdate"
                     /\ last'.to = Open(conns) \ {c}
                     /\ c \notin last'.to]_vars

\* a close announced to the connection that remains
C25_Witness ==
    /\ last.op = "disconnect"
    /\ conns[last.conn].state = "closed"
    /\ last.to # {}
    /\ last.to = Open(conns)

\* C26: a connection slot goes from unconnected to open only by a handshake
\* whose token verifies and names an existing, active user; while
\* unconnected it is in no channel, is the origin of nothing but refused
\* handshakes and receives no event; an open connection stays open or
\* closes, and a closed connection never changes again.
C26_ConnectionLifecycle ==
    [][\A c \in ConnIds :
          /\ conns[c].state = "closed" => conns'[c] = conns[c]
          /\ conns[c].state = "open" => conns'[c].state \in {"open", "closed"}
          /\ (conns[c].state = "none" /\ conns'[c].state # "none")
                => /\ conns'[c].state = "open"
                   /\ last'.op = "connect"
                   /\ last'.conn = c
                   /\ last'.token.kind = "jwt"
                   /\ FindUser(users, last'.token.id) # NoUser
                   /\ FindUser(users, last'.token.id).isActive
          /\ conns'[c].state = "none"
                => /\ conns'[c].rooms = NoRooms
                   /\ c \notin last'.to
                   /\ last'.conn = c => (last'.op = "connect" /\ last'.code = 401)]_vars

\* the handshake of a deactivated user, refused
C26_Witness ==
    /\ last.op = "connect"
    /\ last.code = 401
    /\ last.token.kind = "jwt"
    /\ FindUser(users, last.token.id) # NoUser
    /\ ~FindUser(users, last.token.id).isActive
    /\ conns[last.conn].state = "none"

\* C30: joinTask(t) and leaveTask(t) on a connection change nothing but
\* that connection's membership of task t: afterwards it is a member
\* (join) or not (leave), its other task channels, its user and role
\* channels and every other connection are as before; a join of a channel
\* already joined and a leave of one not joined change nothing.
C30_JoinLeaveFrame ==
    [][last'.op \in {"joinTask", "leaveTask"}
          => LET c == last'.conn
                 t == last'.task
             IN /\ \A d \in ConnIds \ {c} : conns'[d] = conns[d]
                /\ conns'[c].state = conns[c].state
                /\ conns'[c].user = conns[c].user
                /\ conns'[c].rooms.user = conns[c].rooms.user
                /\ conns'[c].rooms.role = conns[c].rooms.role
                /\ conns'[c].rooms.task \ {t} = conns[c].rooms.task \ {t}
                /\ (t \in conns'[c].rooms.task) <=> (last'.op = "joinTask")
                /\ (last'.op = "joinTask" /\ t \in conns[c].rooms.task) => conns' = conns
                /\ (last'.op = "leaveTask" /\ t \notin conns[c].rooms.task) => conns' = conns]_vars

\* a connection that has joined a second task channel
C30_Witness ==
    /\ last.op = "joinTask"
    /\ conns[last.conn].rooms.task = TaskIds
    /\ Cardinality(TaskIds) > 1

(***************************************************************************)
(* Claims about the save hook (SpecSave)                                   *)
(***************************************************************************)
\* C27: after a task has been saved with a status, applying the hook for
\* the same status again, at any later time, gives the same task: a
\* completedAt set by the first save is kept; and a save changes no field
\* but status and completedAt.
C27_SaveIdempotent ==
    [][last'.op = "save"
          => LET id == last'.task
                 once == tasks'[id]
             IN /\ once.status = last'.body.status
                /\ \A now \in SaveTimes \cup Times :
                      preSave([once EXCEPT !.status = last'.body.status],
                              last'.body.statusModified, now) = once
                /\ \A now \in SaveTimes \cup Times :
                      preSave([once EXCEPT !.status = last'.body.status], FALSE, now) = once
                /\ \A f \in TaskFields \ {"status", "completedAt"} :
                      once[f] = tasks[id][f]
                /\ \A other \in TaskIds \ {id} : tasks'[other] = tasks[other]]_vars

\* a task saved as done that carries the completedAt a save gave it
C27_Witness ==
    /\ last.op = "save"
    /\ last.body.status = "done"
    /\ tasks[last.task].status = "done"
    /\ tasks[last.task].completedAt \in SaveTimes

(***************************************************************************)
(* Claims about subtask progress (SpecProgress)                            *)
(***************************************************************************)
\* C28: the progress sent with a task has total = the number of subtasks,
\* completed = the number of them whose completed flag is true and
\* percentage = completed/total*100 rounded to the nearest integer (0 for
\* no subtasks); 0 <= completed <= total, 0 <= percentage <= 100, and
\* percentage is 100 exactly when there are subtasks and all are completed.
C28_SubtaskProgress ==
    (last.op = "getTask" /\ last.code = 200)
        => LET subs == tasks[last.task].subtasks
               total == Len(subs)
               completed == Cardinality({i \in DOMAIN subs : subs[i].completed})
               p == last.data
           IN /\ p.total = total
              /\ p.completed = completed
              /\ 0 <= p.completed /\ p.completed <= p.total
              /\ 0 <= p.percentage /\ p.percentage <= 100
              /\ total = 0 => p.percentage = 0
              /\ total > 0 => /\ 2 * total * p.percentage <= 200 * completed + total
                              /\ 200 * completed + total < 2 * total * (p.percentage + 1)
              /\ p.percentage = 100 <=> (total > 0 /\ completed = total)

(***************************************************************************)
(* Claims about racing updates (SpecRace)                                  *)
(***************************************************************************)
\* the requests that have written their patch
Written == {r \in ReqIds : reqs[r].pc = "done" /\ reqs[r].code = 200}

\* C29: whatever the order in which the steps of concurrent updateTask
\* requests on a task run, each field of the task has the value given by
\* one of the requests that have written and named it, and a field that no
\* such request named has the value it had before: patches on different
\* fields both take effect, and no request overwrites a field it did not
\* name.
C29_LastWriteWinsPerField ==
    \A f \in TaskFields :
        LET namers == {r \in Written : Has(reqs[r].body, f)} IN
        IF namers = {} THEN tasks[1][f] = FanSeedTask[f]
        ELSE \E r \in namers : tasks[1][f] = reqs[r].body[f]

\* two requests that both read the task before either wrote, with patches
\* on different fields, both written
C29_Witness ==
    \E r, q \in Written :
        /\ reqs[r].body = [priority |-> "high"]
        /\ reqs[q].body = [status |-> "done"]
        /\ reqs[r].task = FanSeedTask
        /\ reqs[q].task = FanSeedTask
        /\ tasks[1].priority = "high"
        /\ tasks[1].status = "done"

(***************************************************************************)
(* Claims about the user routes (SpecDir)                                  *)
(***************************************************************************)
UserOps == {"getUsers", "getUser", "getUserStats", "updateUser", "deleteUser"}
AdminUserOps == {"getUserStats", "updateUser", "deleteUser"}

\* C31: every user route is protected.  A user route answers past the
\* gates only to an authenticated active actor; the statistics, update and
\* delete routes get past the gates exactly for an authenticated admin and
\* answer everyone else with 401 or 403, never with a server error.
C31_UserRoutesProtected ==
    last.op \in UserOps =>
        /\ last.code \notin {401} => last.actor # NoActor
        /\ last.op \in AdminUserOps =>
              /\ last.code # 500
              /\ last.code \notin {401, 403} <=> last.actor.role = "admin"

(***************************************************************************)
(* Claims about task rooms (SpecJoin)                                      *)
(***************************************************************************)
\* C32: an open connection is a member of task:<T>, for a stored task T,
\* only if the Visibility Policy lets its actor read T, and the comment and
\* typing events of T reach only connections whose actor may read T.
C32_TaskRoomNeedsAccess ==
    /\ \A c \in ConnIds : \A t \in conns[c].rooms.task :
          (conns[c].state = "open" /\ Exists(tasks, t))
              => MayTouch(conns[c].user, tasks[t])
    /\ (last.op \in {"newComment", "typing"} /\ Exists(tasks, last.task))
          => \A r \in last.to : MayTouch(conns[r].user, tasks[last.task])

(***************************************************************************)
(* Claims about emails (SpecMail)                                          *)
(***************************************************************************)
\* C33: in every reachable state no two stored users have the same email,
\* whatever the interleaving of the register, updateProfile and updateUser
\* requests.
C33_EmailsUnique ==
    \A u, v \in UserIds :
        (u # v /\ users[u] # NoUser /\ users[v] # NoUser)
            => users[u].email # users[v].email

(***************************************************************************)
(* Claims about updates racing deletions (SpecGone)                        *)
(***************************************************************************)
\* C34: an updateTask that answers success, or publishes taskUpdated,
\* carries the updated task: never an absent (null) task because the task
\* was deleted between the existence check and the write.
C34_UpdateNeverAnswersNull ==
    (last.op = "updateTask" /\ (last.code = 200 \/ last.event = "taskUpdated"))
        => last.ids = {last.task}

(***************************************************************************)
(* Claims about creators (SpecOwner)                                       *)
(***************************************************************************)
\* C35: createTask stores createdBy equal to the acting actor whatever the
\* payload contains, and no updateTask or bulkUpdateTasks changes the
\* createdBy of a stored task.
C35_CreatorFixed ==
    [][/\ (last'.op = "createTask" /\ last'.code = 201)
            => tasks'[last'.task].createdBy = last'.actor.id
       /\ \A id \in TaskIds :
            (Exists(tasks, id) /\ Exists(tasks', id))
                => tasks'[id].createdBy = tasks[id].createdBy]_vars

(***************************************************************************)
(* Claims about role channels (SpecRole)                                   *)
(***************************************************************************)
\* C36: an open connection that is a member of role:<r> belongs to an actor
\* whose stored role is r now, and an event published to the admin and
\* vendor channels reaches only connections of users who are admin or
\* vendor now.
C36_RoleChannelFollowsRole ==
    /\ \A c \in Open(conns) : \A r \in conns[c].rooms.role :
          FindUser(users, conns[c].user.id).role = r
    /\ last.op = "bulkOperation"
          => \A c \in last.to :
                FindUser(users, conns[c].user.id).role \in {"admin", "vendor"}

(***************************************************************************)
(* Claims about comments under concurrency (SpecNote)                      *)
(***************************************************************************)
\* the addComment requests that answered success
Commented == {r \in ReqIds : reqs[r].op = "addComment" /\ reqs[r].code = 201}

\* the updateSubtask requests on a subtask that answered success
Subtasked(sub) ==
    {r \in ReqIds : reqs[r].op = "updateSubtask" /\ reqs[r].code = 200
                       /\ reqs[r].sub = sub}

\* C37: whatever the order in which the steps of addComment and
\* updateSubtask requests on a task run, the task's comments are exactly
\* the comments of the addComment requests that answered success, one
\* each, with authorId and authorRole of the actor that sent it, and every
\* subtask field has the value given by a successful updateSubtask on that
\* subtask, or its earlier value when there was none.
C37_NoCommentLost ==
    LET comments == tasks[1].comments IN
    /\ Len(comments) = Cardinality(Commented)
    /\ \E at \in [Commented -> DOMAIN comments] :
          /\ \A r, q \in Commented : r # q => at[r] # at[q]
          /\ \A r \in Commented :
                /\ comments[at[r]].text = reqs[r].body.text
                /\ comments[at[r]].authorId = reqs[r].actor.id
                /\ comments[at[r]].authorRole = reqs[r].actor.role
    /\ \A i \in DOMAIN TwoSubtasks :
          LET writers == Subtasked(TwoSubtasks[i].id) IN
          /\ tasks[1].subtasks[i].id = TwoSubtasks[i].id
          /\ IF writers = {}
                THEN tasks[1].subtasks[i].completed = TwoSubtasks[i].completed
                ELSE \E r \in writers :
                        tasks[1].subtasks[i].completed = reqs[r].body.completed

\* two addComment requests that both loaded the task before either saved,
\* both answered, and both comments stored
C37_Witness ==
    /\ Cardinality(Commented) = 2
    /\ \A r \in Commented : reqs[r].task.comments = <<>>
    /\ \E r, q \in Commented : reqs[r].actor.id # reqs[q].actor.id
    /\ Len(tasks[1].comments) = 2

====
